---- MODULE Spec2Model ----
(***************************************************************************)
(* A model of vibe-check: file discovery, the codebase-context builder and *)
(* condenser (core/context-manager), the analysis and insight clients, the *)
(* report assembler and the scan command with its error handler.           *)
(*                                                                         *)
(* File and directory names are tuples of one-character strings, so that   *)
(* path.extname, String.startsWith and String.toLowerCase are computed and *)
(* not assumed.  A path is a tuple of names.  A file's content is          *)
(* abstracted to its length and its number of newline characters.          *)
(***************************************************************************)
EXTENDS Integers, Sequences, FiniteSets, TLC

VARIABLES
  \* --- file discovery (ContextManager.scanDirectory) ---
  rootExists,    \* whether the scanned root directory exists
  tree,          \* relative path -> [kind, listable, ord]: the entries under the root
  scanned,       \* NULL, or the outcome of scanDirectory(ROOT_DIR)
  \* --- context builder / condenser ---
  listing,       \* what the file system gives: scanDirectory's outcome and each file's content
  ctxPc,         \* "idle", "built", "condensed", "recondensed"
  built,         \* outcome of buildContext
  maxFiles,      \* the maxFiles argument of getCondensedContext
  condensed,     \* outcome of getCondensedContext
  recondensed,   \* the condensation step applied to the condensed context again
  \* --- the scan command (cli.ts) ---
  pc,            \* where the scan action is: "idle", "start", "awaitAnalysis",
                 \* "awaitInsights", "output", "pdf", "exited"
  configFile,    \* NULL (no file), or the record stored in ~/.vibe-check/config.json
  config,        \* ConfigManager's cached configuration, NULL until loaded
  dirArg,        \* the [dir] argument
  options,       \* [output, pdf]: whether --output and --pdf were given
  context,       \* analyzeCodebase's condensed context, NULL before it is built
  analysisRequests,  \* remote analysis requests issued
  analysisResponse,  \* NULL, or what the remote analysis call gave
  vulnerabilities,   \* NULL, or the array analyzeCodebase returned
  insightPrompt,     \* NULL, or the prompt of the insight request
  insightRequests,   \* remote insight requests issued
  insightResponse,   \* NULL, or what the remote insight call gave
  insights,      \* NULL, or the array generateInsights returned
  report,        \* NULL, or the report scanDirectoryForVulnerabilities returned
  rendered,      \* whether the formatted report was printed
  outputFile,    \* NULL, or the document written to the --output file
  error,         \* NULL, or the error ErrorHandler.handle was given
  stderr,        \* the lines ErrorHandler.handle printed
  exitCode,      \* -1 while the process runs, then its exit status
  trace,         \* the pipeline stages started, in order
  \* --- scan invocations running in one process ---
  scans,         \* invocation -> the locals of its scanDirectoryForVulnerabilities call
  \* --- ConfigManager called on its own ---
  lastCall,      \* NULL, or the last ConfigManager call: what it was given, the
                 \* cache and file before it, and what it returned or threw
  \* --- PDFGenerator ---
  pdf,           \* NULL, or the state of a generatePDF / generatePDFWithOptions call
  \* --- the JSON written for --output, read back ---
  parsed         \* NULL, or what JSON.parse gives for the document written

discVars == <<rootExists, tree, scanned>>
ctxVars  == <<ctxPc, built, maxFiles, condensed, recondensed>>
scanVars == <<pc, configFile, config, dirArg, options, context, analysisRequests,
              analysisResponse, vulnerabilities, insightPrompt, insightRequests,
              insightResponse, insights, report, rendered, outputFile, error,
              stderr, exitCode, trace>>
auxVars  == <<scans, lastCall, pdf, parsed>>
vars     == <<discVars, listing, ctxVars, scanVars, auxVars>>

\* JavaScript null / undefined, for variables that otherwise hold a record
NULL == [null |-> TRUE]

IdleAux == scans = <<>> /\ lastCall = NULL /\ pdf = NULL /\ parsed = NULL

(***************************************************************************)
(* Bounds of the model.                                                    *)
(***************************************************************************)
MaxEntries == 4      \* entries created under the scanned root
MaxFiles == 3        \* discovered files handed to the context builder
MaxInvocations == 2  \* scan invocations interleaved in one process
MaxVulns == 3        \* vulnerabilities in a response of the remote model

(***************************************************************************)
(* Sequence helpers.                                                       *)
(***************************************************************************)
Min(a, b) == IF a <= b THEN a ELSE b

Range(s) == {s[i] : i \in 1..Len(s)}

\* Array.prototype.slice(0, n) for n >= 0
Slice0(s, n) == SubSeq(s, 1, Min(n, Len(s)))

RECURSIVE SumSeq(_)
SumSeq(s) == IF s = <<>> THEN 0 ELSE Head(s) + SumSeq(Tail(s))

RECURSIVE SumFun(_, _)
SumFun(f, D) ==
  IF D = {} THEN 0
  ELSE LET d == CHOOSE x \in D : TRUE IN f[d] + SumFun(f, D \ {d})

(***************************************************************************)
(* Strings as tuples of characters.                                        *)
(***************************************************************************)
LowerOf(c) ==
  CASE c = "P" -> "p" [] c = "Y" -> "y" [] c = "J" -> "j" [] c = "S" -> "s"
    [] c = "X" -> "x" [] c = "T" -> "t" [] OTHER -> c

toLowerCase(s) == [i \in 1..Len(s) |-> LowerOf(s[i])]

startsWithDot(s) == Len(s) >= 1 /\ s[1] = "."

\* path.extname: from the last "." of the name to its end, and empty when the
\* name holds no "." or its only "." is its first character
extname(name) ==
  LET dots == {i \in 1..Len(name) : name[i] = "."} IN
  IF dots = {} THEN <<>>
  ELSE LET last == CHOOSE i \in dots : \A j \in dots : j <= i IN
       IF last = 1 THEN <<>> ELSE SubSeq(name, last, Len(name))

(***************************************************************************)
(* ContextManager's static tables.                                         *)
(***************************************************************************)
SUPPORTED_EXTENSIONS ==
    { <<<<".", "j", "s">>, "javascript">>,
      <<<<".", "t", "s">>, "typescript">>,
      <<<<".", "j", "s", "x">>, "javascript">>,
      <<<<".", "t", "s", "x">>, "typescript">>,
      <<<<".", "p", "y">>, "python">>,
      <<<<".", "j", "a", "v", "a">>, "java">>,
      <<<<".", "c", "p", "p">>, "cpp">>,
      <<<<".", "c">>, "c">>,
      <<<<".", "c", "s">>, "csharp">>,
      <<<<".", "p", "h", "p">>, "php">>,
      <<<<".", "r", "b">>, "ruby">>,
      <<<<".", "g", "o">>, "go">>,
      <<<<".", "r", "s">>, "rust">>,
      <<<<".", "s", "w", "i", "f", "t">>, "swift">>,
      <<<<".", "k", "t">>, "kotlin">>,
      <<<<".", "s", "c", "a", "l", "a">>, "scala">>,
      <<<<".", "s", "h">>, "bash">>,
      <<<<".", "s", "q", "l">>, "sql">>,
      <<<<".", "h", "t", "m", "l">>, "html">>,
      <<<<".", "c", "s", "s">>, "css">>,
      <<<<".", "s", "c", "s", "s">>, "scss">>,
      <<<<".", "j", "s", "o", "n">>, "json">>,
      <<<<".", "y", "a", "m", "l">>, "yaml">>,
      <<<<".", "y", "m", "l">>, "yaml">>,
      <<<<".", "x", "m", "l">>, "xml">>,
      <<<<".", "m", "d">>, "markdown">> }

IGNORED_DIRS ==
    { <<"n", "o", "d", "e", "_", "m", "o", "d", "u", "l", "e", "s">>,
      <<".", "g", "i", "t">>,
      <<".", "v", "s", "c", "o", "d", "e">>,
      <<".", "i", "d", "e", "a">>,
      <<"d", "i", "s", "t">>,
      <<"b", "u", "i", "l", "d">>,
      <<"t", "a", "r", "g", "e", "t">>,
      <<"_", "_", "p", "y", "c", "a", "c", "h", "e", "_", "_">>,
      <<".", "n", "e", "x", "t">>,
      <<".", "n", "u", "x", "t">>,
      <<"c", "o", "v", "e", "r", "a", "g", "e">>,
      <<".", "n", "y", "c", "_", "o", "u", "t", "p", "u", "t">> }

MAX_FILE_SIZE == 100 * 1024

\* ContextManager.isSupportedFile: ext in SUPPORTED_EXTENSIONS
isSupportedFile(filename) ==
  \E e \in SUPPORTED_EXTENSIONS : e[1] = toLowerCase(extname(filename))

\* ContextManager.getLanguage: SUPPORTED_EXTENSIONS[ext] || 'text'
getLanguage(filePath) ==
  LET ext == toLowerCase(extname(filePath[Len(filePath)])) IN
  IF \E e \in SUPPORTED_EXTENSIONS : e[1] = ext
    THEN (CHOOSE e \in SUPPORTED_EXTENSIONS : e[1] = ext)[2]
    ELSE "text"

(***************************************************************************)
(* The directory tree and fs.readdir.                                      *)
(***************************************************************************)
ROOT_DIR == << <<"p", "r", "o", "j">> >>

\* path.join(currentDir, entry.name)
pathJoin(dir, name) == dir \o <<name>>

\* path.relative(rootDir, filePath) for a file below rootDir
pathRelative(rootDir, filePath) == SubSeq(filePath, Len(rootDir) + 1, Len(filePath))

\* The entries a step of the environment can create: a name with the kind of
\* entry it is (a Dirent is a directory, a regular file or something else, here
\* a symbolic link) and, for a directory, whether it can be listed.
EntryChoices ==
  { [name |-> <<"s", "r", "c">>,           kind |-> "dir",     listable |-> TRUE],
    [name |-> <<".", "x">>,                kind |-> "dir",     listable |-> TRUE],
    [name |-> <<"d", "i", "s", "t">>,      kind |-> "dir",     listable |-> TRUE],
    [name |-> <<"p", "r", "i", "v">>,      kind |-> "dir",     listable |-> FALSE],
    [name |-> <<"a", ".", "t", "s">>,      kind |-> "file",    listable |-> FALSE],
    [name |-> <<"b", ".", "P", "Y">>,      kind |-> "file",    listable |-> FALSE],
    [name |-> <<"c", ".", "t", "x", "t">>, kind |-> "file",    listable |-> FALSE],
    [name |-> <<".", "t", "s">>,           kind |-> "file",    listable |-> FALSE],
    [name |-> <<"l", ".", "j", "s">>,      kind |-> "symlink", listable |-> FALSE] }

Parent(p) == SubSeq(p, 1, Len(p) - 1)
Last(p) == p[Len(p)]

Children(t, dir) == {p \in DOMAIN t : Len(p) = Len(dir) + 1 /\ Parent(p) = dir}

\* The paths of S in enumeration order (the order the entries were created in)
RECURSIVE InOrder(_, _)
InOrder(t, S) ==
  IF S = {} THEN <<>>
  ELSE LET first == CHOOSE p \in S : \A q \in S : t[p].ord <= t[q].ord
       IN <<first>> \o InOrder(t, S \ {first})

\* fs.readdir(currentDir, {withFileTypes: true}); dir is relative to the root
readdir(t, dir) == InOrder(t, Children(t, dir))

canList(exists, t, dir) ==
  IF dir = <<>> THEN exists ELSE t[dir].kind = "dir" /\ t[dir].listable

(***************************************************************************)
(* ContextManager.scanDirectory.  The accumulator is the closure's `files` *)
(* array together with whether an exception is propagating.                *)
(***************************************************************************)
enterDirAll(name) == TRUE

enterDir(name) == ~startsWithDot(name) /\ name \notin IGNORED_DIRS

RECURSIVE scanEntries(_, _, _, _, _)
scanEntries(exists, t, rootDir, entries, acc) ==
  IF ~acc.ok \/ entries = <<>> THEN acc
  ELSE
    LET rel  == Head(entries)
        name == Last(rel)
        fullPath == pathJoin(rootDir \o Parent(rel), name)
        after ==
          IF t[rel].kind = "dir"
            THEN IF enterDir(name)
                   THEN IF canList(exists, t, rel)
                          THEN scanEntries(exists, t, rootDir, readdir(t, rel), acc)
                          ELSE [acc EXCEPT !.ok = FALSE]
                   ELSE acc
            ELSE IF t[rel].kind = "file" /\ isSupportedFile(name)
                   THEN [acc EXCEPT !.files = Append(@, fullPath)]
                   ELSE acc
    IN scanEntries(exists, t, rootDir, Tail(entries), after)

scanDirectory(exists, t, rootDir) ==
  IF ~canList(exists, t, <<>>)
    THEN [ok |-> FALSE, files |-> <<>>]
    ELSE LET r == scanEntries(exists, t, rootDir, readdir(t, <<>>),
                              [ok |-> TRUE, files |-> <<>>])
         IN IF r.ok THEN r ELSE [ok |-> FALSE, files |-> <<>>]

(***************************************************************************)
(* Results of operations that can throw: a value or the error thrown.      *)
(***************************************************************************)
Ok(v) == [ok |-> TRUE, value |-> v]
Throw(e) == [ok |-> FALSE, error |-> e]

\* A message is a tuple of strings, so that a template can append to it.
Msg(text) == <<text>>

\* new ContextBuildError(message, directory?)
ContextBuildError(message, directory) ==
  [name |-> "ContextBuildError", message |-> message, directory |-> directory]

NO_DIRECTORY == <<>>

(***************************************************************************)
(* ContextManager.generateSummary.  The loop's state is the record of its  *)
(* four locals; averageFileSize is Math.round(sum / files.length).         *)
(***************************************************************************)
\* content.split('\n').length
lineCount(content) == content.newlines + 1

\* Math.round(a / b) for a >= 0, b > 0
roundDiv(a, b) == (2 * a + b) \div (2 * b)

RECURSIVE summaryLoop(_, _)
summaryLoop(files, st) ==
  IF files = <<>> THEN st
  ELSE
    LET file == Head(files)
        langs == IF file.language \in DOMAIN st.languages
                   THEN [st.languages EXCEPT ![file.language] = @ + 1]
                   ELSE [l \in DOMAIN st.languages \cup {file.language} |->
                           IF l = file.language THEN 1 ELSE st.languages[l]]
        larger == file.size > st.largestSize
    IN summaryLoop(Tail(files),
         [languages   |-> langs,
          totalLines  |-> st.totalLines + lineCount(file.content),
          largestFile |-> IF larger THEN file.path ELSE st.largestFile,
          largestSize |-> IF larger THEN file.size ELSE st.largestSize])

generateSummary(files) ==
  LET st == summaryLoop(files, [languages |-> <<>>, totalLines |-> 0,
                                largestFile |-> <<>>, largestSize |-> 0])
  IN [totalFiles  |-> Len(files),
      totalLines  |-> st.totalLines,
      languages   |-> st.languages,
      largestFile |-> st.largestFile,
      averageFileSize |->
        IF Len(files) > 0
          THEN roundDiv(SumSeq([i \in 1..Len(files) |-> files[i].size]), Len(files))
          ELSE 0]

(***************************************************************************)
(* ContextManager.buildContext.  `lst` is what the file system gives:      *)
(* whether scanDirectory returns, the paths it returns and, for each, what *)
(* fs.readFile gives (an exception, or a content).                         *)
(***************************************************************************)
tooLargeAtCap(content) == content.length >= MAX_FILE_SIZE

tooLarge(content) == content.length > MAX_FILE_SIZE

RECURSIVE readFiles(_, _, _)
readFiles(rootDir, entries, fileContexts) ==
  IF entries = <<>> THEN fileContexts
  ELSE
    LET f == Head(entries) IN
    IF ~f.readable THEN readFiles(rootDir, Tail(entries), fileContexts)
    ELSE IF tooLarge(f.content) THEN readFiles(rootDir, Tail(entries), fileContexts)
    ELSE readFiles(rootDir, Tail(entries),
           Append(fileContexts,
             [path     |-> pathRelative(rootDir, f.path),
              content  |-> f.content,
              language |-> getLanguage(f.path),
              size     |-> f.content.length]))

buildContextAllowEmpty(rootDir, lst) ==
  IF rootDir = <<>>
    THEN Throw(ContextBuildError(
           Msg("Root directory path is required and must be a string"), NO_DIRECTORY))
  ELSE IF ~lst.ok
    THEN Throw(ContextBuildError(Msg("Failed to scan directory: ${rootDir}"), rootDir))
  ELSE IF Len(lst.files) = 0
    THEN Throw(ContextBuildError(
           Msg("No supported files found in directory: ${rootDir}"), NO_DIRECTORY))
  ELSE
    LET fileContexts == readFiles(rootDir, lst.files, <<>>) IN
    Ok([files |-> fileContexts, summary |-> generateSummary(fileContexts)])

buildContext(rootDir, lst) ==
  IF rootDir = <<>>
    THEN Throw(ContextBuildError(
           Msg("Root directory path is required and must be a string"), NO_DIRECTORY))
  ELSE IF ~lst.ok
    THEN Throw(ContextBuildError(Msg("Failed to scan directory: ${rootDir}"), rootDir))
  ELSE IF Len(lst.files) = 0
    THEN Throw(ContextBuildError(
           Msg("No supported files found in directory: ${rootDir}"), NO_DIRECTORY))
  ELSE
    LET fileContexts == readFiles(rootDir, lst.files, <<>>) IN
    IF Len(fileContexts) = 0
      THEN Throw(ContextBuildError(
             Msg("No readable files found or all files exceed maximum size limit"),
             NO_DIRECTORY))
      ELSE Ok([files |-> fileContexts, summary |-> generateSummary(fileContexts)])

(***************************************************************************)
(* ContextManager.getCondensedContext.  Array.prototype.sort is stable     *)
(* (ECMAScript 2019); it is modelled as an insertion sort that puts an     *)
(* element behind every element the comparator does not order after it.    *)
(***************************************************************************)
isMainLang(language) == language \in {"typescript", "javascript"}

compareBySizeOnly(a, b) == b.size - a.size

compareFiles(a, b) ==
  LET aIsMainLang == isMainLang(a.language)
      bIsMainLang == isMainLang(b.language)
  IN IF aIsMainLang /\ ~bIsMainLang THEN -1
     ELSE IF ~aIsMainLang /\ bIsMainLang THEN 1
     ELSE b.size - a.size

RECURSIVE insertBeforeEqual(_, _)
insertBeforeEqual(x, s) ==
  IF s = <<>> THEN <<x>>
  ELSE IF compareFiles(Head(s), x) < 0
         THEN <<Head(s)>> \o insertBeforeEqual(x, Tail(s))
         ELSE <<x>> \o s

RECURSIVE insertSorted(_, _)
insertSorted(x, s) ==
  IF s = <<>> THEN <<x>>
  ELSE IF compareFiles(Head(s), x) <= 0
         THEN <<Head(s)>> \o insertSorted(x, Tail(s))
         ELSE <<x>> \o s

RECURSIVE sortFiles(_)
sortFiles(files) ==
  IF files = <<>> THEN <<>>
  ELSE insertSorted(files[Len(files)], sortFiles(SubSeq(files, 1, Len(files) - 1)))

\* lines 262-279: what getCondensedContext does with the context it built
condenseKeepSummary(fullContext, n) ==
  [files |-> Slice0(sortFiles(fullContext.files), n), summary |-> fullContext.summary]

condense(fullContext, n) ==
  LET condensedFiles == Slice0(sortFiles(fullContext.files), n)
  IN [files |-> condensedFiles, summary |-> generateSummary(condensedFiles)]

getCondensedContext(rootDir, lst, n) ==
  LET fullContext == buildContext(rootDir, lst) IN
  IF ~fullContext.ok THEN fullContext ELSE Ok(condense(fullContext.value, n))

(***************************************************************************)
(* core/errors: the error classes, ErrorHandler.tryAsync and               *)
(* ErrorHandler.handle.  A thrown value that is no Error is a record       *)
(* without a name, holding what String() gives for it.                     *)
(***************************************************************************)
NO_CAUSE == NULL

NewError(ErrorClass, message, cause) ==
  [name |-> ErrorClass, message |-> message, cause |-> cause]

ValidationError(message) == [name |-> "ValidationError", message |-> message]

ConfigurationError(message) == [name |-> "ConfigurationError", message |-> message]

PlainError(message) == [name |-> "Error", message |-> message]

NonErrorThrown(text) == [thrown |-> text]

isError(e) == "name" \in DOMAIN e

\* tryAsync that never sets a cause
tryAsyncNoCause(res, errorMessage, ErrorClass) ==
  IF res.ok THEN res
  ELSE Throw(NewError(ErrorClass, errorMessage, NO_CAUSE))

\* ErrorHandler.tryAsync applied to the outcome `res` of the awaited operation
tryAsync(res, errorMessage, ErrorClass) ==
  IF res.ok THEN res
  ELSE IF isError(res.error)
         THEN Throw(NewError(ErrorClass, errorMessage, res.error))
         ELSE Throw(NewError(ErrorClass, errorMessage \o <<": ", res.error.thrown>>,
                             NO_CAUSE))

\* The lines ErrorHandler.handle prints before process.exit(1)
ErrorHandler_handle(err, contextName) ==
  LET contextPrefix == <<"[", contextName, "] ">> IN
  IF err.name = "ConfigurationError" THEN
    << contextPrefix \o <<"Configuration Error: ">> \o err.message,
       <<"Please run \"vibe-check config setup\" to configure the CLI.">> >>
  ELSE IF err.name = "AIAnalysisError" THEN
    << contextPrefix \o <<"AI Analysis Failed: ">> \o err.message >>
    \o (IF err.cause # NO_CAUSE
          THEN << <<"Underlying cause:">> \o err.cause.message >> ELSE <<>>)
    \o << <<"Please check your API key and model configuration.">> >>
  ELSE IF err.name = "FileProcessingError" THEN
    << contextPrefix \o <<"File Processing Error: ">> \o err.message >>
  ELSE IF err.name = "ContextBuildError" THEN
    << contextPrefix \o <<"Context Build Error: ">> \o err.message >>
    \o (IF err.directory # NO_DIRECTORY THEN << <<"Directory: ${error.directory}">> >>
        ELSE <<>>)
  ELSE IF err.name = "InsightGenerationError" THEN
    << contextPrefix \o <<"Insight Generation Failed: ">> \o err.message >>
    \o (IF err.cause # NO_CAUSE
          THEN << <<"Underlying cause:">> \o err.cause.message >> ELSE <<>>)
  ELSE IF err.name = "ValidationError" THEN
    << contextPrefix \o <<"Validation Error: ">> \o err.message >>
  ELSE
    << contextPrefix \o <<"Unexpected Error: ">> \o err.message,
       <<"Stack trace:", "${error.stack}">> >>

(***************************************************************************)
(* config/manager: what the scan path uses of ConfigManager.               *)
(***************************************************************************)
\* A value that is not a string (the number 42), written as a token
NUMBER_42 == "42 (a number)"

\* !value || typeof value !== 'string' for the field f of cfg
missingOrNotString(cfg, f) ==
  f \notin DOMAIN cfg \/ cfg[f] = "" \/ cfg[f] = NUMBER_42

validateConfig(cfg) ==
  IF cfg = NULL THEN [isValid |-> FALSE]
  ELSE [isValid |-> ~missingOrNotString(cfg, "apiKey")
                    /\ ~missingOrNotString(cfg, "model")]

\* loadConfig: [res |-> what it returns or throws, cache |-> this.config afterwards]
loadConfig(cache, file) ==
  IF file = NULL THEN [res |-> Ok(NULL), cache |-> cache]
  ELSE IF ~validateConfig(file).isValid
    THEN [res |-> Throw(PlainError(Msg("Invalid configuration: ${validation.errors}"))),
          cache |-> cache]
  ELSE [res |-> Ok(file), cache |-> file]

getConfig(cache, file) ==
  IF cache = NULL
    THEN LET l == loadConfig(cache, file) IN
         IF l.res.ok THEN [res |-> Ok(l.cache), cache |-> l.cache] ELSE l
    ELSE [res |-> Ok(cache), cache |-> cache]

(***************************************************************************)
(* JavaScript values the remote model can give where an array is expected. *)
(***************************************************************************)
JsArray(items) == [type |-> "array", items |-> items]

NotAnArray == [type |-> "string", items |-> <<>>]

isArray(v) == v.type = "array"

(***************************************************************************)
(* core/code-analyzer: CodeAnalyzer.analyzeCodebase, up to the remote      *)
(* request and from its response on.                                       *)
(***************************************************************************)
\* the maxFiles CodeAnalyzer.analyzeCodebase passes to getCondensedContext
ANALYSIS_MAX_FILES == 15

\* lines 190-211 with the checks of the configuration made after the context build
analyzeCodebaseValidateLate(rootDir, cfg, lst) ==
  IF rootDir = <<>>
    THEN [attempted |-> FALSE,
          res |-> Throw(ValidationError(
                    Msg("Root directory path is required and must be a string")))]
  ELSE IF cfg.apiKey = "" \/ cfg.model = ""
    THEN [attempted |-> TRUE,
          res |-> Throw(ValidationError(Msg("API key is required for AI analysis")))]
  ELSE [attempted |-> TRUE,
        res |-> tryAsync(getCondensedContext(rootDir, lst, ANALYSIS_MAX_FILES),
                         Msg("Failed to build codebase context for AI analysis"),
                         "AIAnalysisError")]

\* lines 190-211 with the whole context in the prompt, not the condensed one
analyzeCodebaseWholeContext(rootDir, cfg, lst) ==
  IF rootDir = <<>>
    THEN [attempted |-> FALSE,
          res |-> Throw(ValidationError(
                    Msg("Root directory path is required and must be a string")))]
  ELSE IF cfg.apiKey = ""
    THEN [attempted |-> FALSE,
          res |-> Throw(ValidationError(Msg("API key is required for AI analysis")))]
  ELSE IF cfg.model = ""
    THEN [attempted |-> FALSE,
          res |-> Throw(ValidationError(
                    Msg("Model configuration is required for AI analysis")))]
  ELSE [attempted |-> TRUE,
        res |-> tryAsync(buildContext(rootDir, lst),
                         Msg("Failed to build codebase context for AI analysis"),
                         "AIAnalysisError")]

\* lines 190-211: [attempted |-> whether the context build was started,
\*                 res |-> the condensed context, or the error thrown]
analyzeCodebaseUntilRequest(rootDir, cfg, lst) ==
  IF rootDir = <<>>
    THEN [attempted |-> FALSE,
          res |-> Throw(ValidationError(
                    Msg("Root directory path is required and must be a string")))]
  ELSE IF cfg.apiKey = ""
    THEN [attempted |-> FALSE,
          res |-> Throw(ValidationError(Msg("API key is required for AI analysis")))]
  ELSE IF cfg.model = ""
    THEN [attempted |-> FALSE,
          res |-> Throw(ValidationError(
                    Msg("Model configuration is required for AI analysis")))]
  ELSE
    LET ctx == tryAsync(getCondensedContext(rootDir, lst, ANALYSIS_MAX_FILES),
                        Msg("Failed to build codebase context for AI analysis"),
                        "AIAnalysisError")
    IN IF ~ctx.ok THEN [attempted |-> TRUE, res |-> ctx]
       ELSE IF Len(ctx.value.files) = 0
         THEN [attempted |-> TRUE,
               res |-> Throw(NewError("AIAnalysisError",
                         Msg("No supported files found in the specified directory"),
                         NO_CAUSE))]
       ELSE [attempted |-> TRUE, res |-> ctx]

\* line 227 without Array.isArray
responseHasField(result) ==
  /\ result.object # NULL
  /\ "vulnerabilities" \in DOMAIN result.object

responseHasArray(result) ==
  /\ result.object # NULL
  /\ "vulnerabilities" \in DOMAIN result.object
  /\ isArray(result.object.vulnerabilities)

\* lines 214-231 with a fallback to an empty result instead of the throw
analyzeCodebaseFromResponseWithFallback(outcome) ==
  LET result == tryAsync(outcome, Msg("AI analysis request failed"), "AIAnalysisError")
  IN IF result.ok /\ responseHasArray(result.value)
       THEN Ok(result.value.object.vulnerabilities)
       ELSE Ok(JsArray(<<>>))

\* lines 214-231: `outcome` is what generateObject gives
analyzeCodebaseFromResponse(outcome) ==
  LET result == tryAsync(outcome, Msg("AI analysis request failed"), "AIAnalysisError")
  IN IF ~result.ok THEN result
     ELSE IF ~responseHasArray(result.value)
       THEN Throw(NewError("AIAnalysisError",
                    Msg("Invalid response format from AI analysis"), NO_CAUSE))
     ELSE Ok(result.value.object.vulnerabilities)

(***************************************************************************)
(* core/insight-generator: InsightGenerator.generateInsights (the cohesive *)
(* paragraph version) and buildInsightPrompt.                              *)
(***************************************************************************)
isHigh(v) == v.severity = "high"
isMedium(v) == v.severity = "medium"
isLow(v) == v.severity = "low"
isNotHigh(v) == v.severity # "high"

toUpperCase(severity) ==
  CASE severity = "high" -> "HIGH" [] severity = "medium" -> "MEDIUM"
    [] severity = "low" -> "LOW" [] OTHER -> severity

INSIGHT_SAMPLE == 10

\* lines 1003-1012 with the sample taken after ordering by severity
buildInsightPromptBySeverity(vulns) ==
  LET ranked == SelectSeq(vulns, isHigh) \o SelectSeq(vulns, isMedium)
                \o SelectSeq(vulns, isLow)
  IN [vulnCount   |-> Len(vulns),
      highCount   |-> Len(SelectSeq(vulns, isHigh)),
      mediumCount |-> Len(SelectSeq(vulns, isMedium)),
      lowCount    |-> Len(SelectSeq(vulns, isLow)),
      vulnSummary |-> [i \in 1..Min(INSIGHT_SAMPLE, Len(ranked)) |->
                         <<toUpperCase(ranked[i].severity), ranked[i].line>>]]

buildInsightPrompt(vulns) ==
  [vulnCount   |-> Len(vulns),
   highCount   |-> Len(SelectSeq(vulns, isHigh)),
   mediumCount |-> Len(SelectSeq(vulns, isMedium)),
   lowCount    |-> Len(SelectSeq(vulns, isLow)),
   vulnSummary |-> [i \in 1..Min(INSIGHT_SAMPLE, Len(vulns)) |->
                      <<toUpperCase(vulns[i].severity), vulns[i].line>>]]

\* lines 954-968 with an empty array refused
generateInsightsRejectEmpty(vulns, cfg) ==
  IF ~isArray(vulns)
    THEN Throw(ValidationError(Msg("Vulnerabilities must be provided as an array")))
  ELSE IF cfg.apiKey = ""
    THEN Throw(ValidationError(Msg("API key is required for insight generation")))
  ELSE IF cfg.model = ""
    THEN Throw(ValidationError(
           Msg("Model configuration is required for insight generation")))
  ELSE IF Len(vulns.items) = 0
    THEN Throw(NewError("InsightGenerationError", Msg("No vulnerabilities"), NO_CAUSE))
  ELSE Ok(buildInsightPrompt(vulns.items))

\* lines 954-968: the prompt of the request, or the error thrown
generateInsightsUntilRequest(vulns, cfg) ==
  IF ~isArray(vulns)
    THEN Throw(ValidationError(Msg("Vulnerabilities must be provided as an array")))
  ELSE IF cfg.apiKey = ""
    THEN Throw(ValidationError(Msg("API key is required for insight generation")))
  ELSE IF cfg.model = ""
    THEN Throw(ValidationError(
           Msg("Model configuration is required for insight generation")))
  ELSE Ok(buildInsightPrompt(vulns.items))

FALLBACK_INSIGHT == "Analysis unavailable"

\* lines 970-996 without the check of the analysis paragraph
generateInsightsFromResponseAnyAnalysis(outcome) ==
  LET result == tryAsync(outcome, Msg("Failed to generate AI insights"),
                         "InsightGenerationError")
  IN IF ~result.ok THEN result
     ELSE IF result.value.object = NULL
       THEN Throw(NewError("InsightGenerationError",
                    Msg("Invalid response format from AI insight generation"), NO_CAUSE))
     ELSE IF "riskAssessment" \notin DOMAIN result.value.object
       THEN Throw(NewError("InsightGenerationError",
                    Msg("AI response missing risk assessment"), NO_CAUSE))
     ELSE IF "analysis" \notin DOMAIN result.value.object
       THEN Ok(<<"">>)
     ELSE Ok(<<result.value.object.analysis>>)

\* lines 970-996 with a fallback insight instead of the throws
generateInsightsFromResponseWithFallback(outcome) ==
  LET result == tryAsync(outcome, Msg("Failed to generate AI insights"),
                         "InsightGenerationError")
  IN IF /\ result.ok
        /\ result.value.object # NULL
        /\ "analysis" \in DOMAIN result.value.object
        /\ result.value.object.analysis # ""
        /\ "riskAssessment" \in DOMAIN result.value.object
       THEN Ok(<<result.value.object.analysis>>)
       ELSE Ok(<<FALLBACK_INSIGHT>>)

\* lines 970-996: `outcome` is what generateObject gives
generateInsightsFromResponse(outcome) ==
  LET result == tryAsync(outcome, Msg("Failed to generate AI insights"),
                         "InsightGenerationError")
  IN IF ~result.ok THEN result
     ELSE IF result.value.object = NULL
       THEN Throw(NewError("InsightGenerationError",
                    Msg("Invalid response format from AI insight generation"), NO_CAUSE))
     ELSE IF "analysis" \notin DOMAIN result.value.object
             \/ result.value.object.analysis = ""
       THEN Throw(NewError("InsightGenerationError",
                    Msg("AI response missing analysis paragraph"), NO_CAUSE))
     ELSE IF "riskAssessment" \notin DOMAIN result.value.object
       THEN Throw(NewError("InsightGenerationError",
                    Msg("AI response missing risk assessment"), NO_CAUSE))
     ELSE Ok(<<result.value.object.analysis>>)

(***************************************************************************)
(* core/reporter: Reporter.generateReport.                                 *)
(***************************************************************************)
generateReportMiscount(vulns, ins) ==
  [vulnerabilities |-> vulns,
   summary |-> [total  |-> Len(vulns.items),
                high   |-> Len(SelectSeq(vulns.items, isHigh)),
                medium |-> Len(SelectSeq(vulns.items, isNotHigh)),
                low    |-> Len(SelectSeq(vulns.items, isLow))],
   insights |-> ins]

generateReport(vulns, ins) ==
  [vulnerabilities |-> vulns,
   summary |-> [total  |-> Len(vulns.items),
                high   |-> Len(SelectSeq(vulns.items, isHigh)),
                medium |-> Len(SelectSeq(vulns.items, isMedium)),
                low    |-> Len(SelectSeq(vulns.items, isLow))],
   insights |-> ins]

(***************************************************************************)
(* Discovery: the environment creates entries, then the root is scanned.   *)
(***************************************************************************)
IdleCtx ==
  /\ ctxPc = "idle" /\ built = NULL /\ maxFiles = 0
  /\ condensed = NULL /\ recondensed = NULL

IdleScan ==
  /\ pc = "idle" /\ configFile = NULL /\ config = NULL /\ dirArg = <<>>
  /\ options = [output |-> FALSE, pdf |-> FALSE]
  /\ context = NULL /\ analysisRequests = 0 /\ analysisResponse = NULL
  /\ vulnerabilities = NULL /\ insightPrompt = NULL /\ insightRequests = 0
  /\ insightResponse = NULL /\ insights = NULL /\ report = NULL
  /\ rendered = FALSE /\ outputFile = NULL /\ error = NULL
  /\ stderr = <<>> /\ exitCode = -1 /\ trace = <<>>

InitDiscovery ==
  /\ rootExists \in BOOLEAN
  /\ tree = <<>>
  /\ scanned = NULL
  /\ listing = NULL
  /\ IdleCtx
  /\ IdleScan
  /\ IdleAux

AddEntry(parent, e) ==
  /\ scanned = NULL
  /\ rootExists
  /\ Cardinality(DOMAIN tree) < MaxEntries
  /\ parent = <<>> \/ (parent \in DOMAIN tree /\ tree[parent].kind = "dir")
  /\ pathJoin(parent, e.name) \notin DOMAIN tree
  /\ tree' = [p \in DOMAIN tree \cup {pathJoin(parent, e.name)} |->
                IF p \in DOMAIN tree THEN tree[p]
                ELSE [kind |-> e.kind, listable |-> e.listable,
                      ord |-> Cardinality(DOMAIN tree) + 1]]
  /\ UNCHANGED <<rootExists, scanned, listing, ctxVars, scanVars, auxVars>>

ScanDirectory ==
  /\ scanned = NULL
  /\ scanned' = scanDirectory(rootExists, tree, ROOT_DIR)
  /\ UNCHANGED <<rootExists, tree, listing, ctxVars, scanVars, auxVars>>

NextDiscovery ==
  \/ \E parent \in DOMAIN tree \cup {<<>>}, e \in EntryChoices : AddEntry(parent, e)
  \/ ScanDirectory

SpecDiscovery == InitDiscovery /\ [][NextDiscovery]_vars

(***************************************************************************)
(* Context building and condensation on a discovered file list.            *)
(***************************************************************************)
Letters == <<"a", "b", "c", "d", "e", "f", "g", "h", "i", "j",
             "k", "l", "m", "n", "o", "p", "q", "r", "s", "t">>

EXT_TS  == <<".", "t", "s">>
EXT_JSX == <<".", "J", "S", "X">>
EXT_JS  == <<".", "j", "s">>
EXT_PY  == <<".", "p", "y">>

NoContent == [length |-> 0, newlines |-> 0]

\* What fs.readFile gives for a discovered file: an exception, or a content
\* (empty, 2 KiB in six lines, exactly at the cap, one character over it)
ReadChoices ==
  { [readable |-> FALSE, content |-> NoContent],
    [readable |-> TRUE,  content |-> NoContent],
    [readable |-> TRUE,  content |-> [length |-> 2048, newlines |-> 5]],
    [readable |-> TRUE,  content |-> [length |-> MAX_FILE_SIZE, newlines |-> 0]],
    [readable |-> TRUE,  content |-> [length |-> MAX_FILE_SIZE + 1, newlines |-> 0]] }

FileChoices == {EXT_TS, EXT_JSX, EXT_PY} \X ReadChoices

\* The i-th discovered file: a full path below the root
DiscoveredFile(i, ext, rd) ==
  [path |-> pathJoin(ROOT_DIR, <<Letters[i]>> \o ext),
   readable |-> rd.readable, content |-> rd.content]

ListingOf(c) ==
  [ok |-> TRUE, files |-> [i \in DOMAIN c |-> DiscoveredFile(i, c[i][1], c[i][2])]]

\* The listings of k discovered files
BoundedListings(k) == {ListingOf(c) : c \in [1..k -> FileChoices]}

\* spec.md section 8, scenario B: a 200 KiB .js file and a 2 KiB .py file
ScenarioB ==
  [ok |-> TRUE,
   files |-> << DiscoveredFile(1, EXT_JS, [readable |-> TRUE,
                   content |-> [length |-> 200 * 1024, newlines |-> 0]]),
                DiscoveredFile(2, EXT_PY, [readable |-> TRUE,
                   content |-> [length |-> 2 * 1024, newlines |-> 0]]) >>]

\* spec.md section 8, scenario C: 10 .ts and 10 .py files, interleaved, every .py
\* file larger than every .ts file
ScenarioC ==
  [ok |-> TRUE,
   files |-> [i \in 1..20 |->
     IF i % 2 = 1
       THEN DiscoveredFile(i, EXT_PY, [readable |-> TRUE,
              content |-> [length |-> 1000 + 100 * i, newlines |-> i]])
       ELSE DiscoveredFile(i, EXT_TS, [readable |-> TRUE,
              content |-> [length |-> 100 + i, newlines |-> i]])]]

\* A directory that cannot be scanned, and the two scenarios
FixedListings == {[ok |-> FALSE, files |-> <<>>], ScenarioB, ScenarioC}

MaxFilesInputs == 0..(MaxFiles + 1) \cup {ANALYSIS_MAX_FILES}

IdleDisc == rootExists = TRUE /\ tree = <<>> /\ scanned = NULL

InitContext ==
  /\ \E k \in 0..MaxFiles : listing \in BoundedListings(k) \cup FixedListings
  /\ ctxPc = "idle"
  /\ built = NULL
  /\ maxFiles = 0
  /\ condensed = NULL
  /\ recondensed = NULL
  /\ IdleDisc
  /\ IdleScan
  /\ IdleAux

BuildContext ==
  /\ ctxPc = "idle"
  /\ built' = buildContext(ROOT_DIR, listing)
  /\ ctxPc' = "built"
  /\ UNCHANGED <<listing, maxFiles, condensed, recondensed, discVars, scanVars, auxVars>>

\* getCondensedContext(rootDir, n); `built` keeps the context it built before
\* sorting and truncating it
GetCondensedContext(n) ==
  /\ ctxPc = "idle"
  /\ maxFiles' = n
  /\ built' = buildContext(ROOT_DIR, listing)
  /\ condensed' = getCondensedContext(ROOT_DIR, listing, n)
  /\ ctxPc' = "condensed"
  /\ UNCHANGED <<listing, recondensed, discVars, scanVars, auxVars>>

\* The condensation step applied once more, to the condensed context
Recondense ==
  /\ ctxPc = "condensed"
  /\ condensed.ok
  /\ recondensed' = condense(condensed.value, maxFiles)
  /\ ctxPc' = "recondensed"
  /\ UNCHANGED <<listing, built, maxFiles, condensed, discVars, scanVars, auxVars>>

NextContext ==
  \/ BuildContext
  \/ \E n \in MaxFilesInputs : GetCondensedContext(n)
  \/ Recondense

SpecContext == InitContext /\ [][NextContext]_vars

(***************************************************************************)
(* The scan command: the action of cli.ts and scanDirectoryForVulnera-     *)
(* bilities, one step per await.  The remote model and the file system are *)
(* the environment; what they give is chosen when the step that awaits     *)
(* them runs.                                                              *)
(***************************************************************************)
ConfigFiles ==
  {NULL} \cup [apiKey : {"", "sk-or-key"}, model : {"", "deepseek-r1"}]

UnreadableFile(i, ext) ==
  DiscoveredFile(i, ext, [readable |-> FALSE, content |-> NoContent])

SmallFile(i, ext) ==
  DiscoveredFile(i, ext, [readable |-> TRUE,
                          content |-> [length |-> 2048, newlines |-> 5]])

OversizedFile(i, ext) ==
  DiscoveredFile(i, ext, [readable |-> TRUE,
                          content |-> [length |-> MAX_FILE_SIZE + 1, newlines |-> 0]])

\* The directories a scan is run on: a missing one, an empty one, one whose
\* files are all skipped, and two with files to analyse
ScanListings ==
  { [ok |-> FALSE, files |-> <<>>],
    [ok |-> TRUE, files |-> <<>>],
    [ok |-> TRUE, files |-> <<UnreadableFile(1, EXT_TS), OversizedFile(2, EXT_PY)>>],
    [ok |-> TRUE, files |-> <<SmallFile(1, EXT_PY), SmallFile(2, EXT_TS)>>],
    ScenarioB }

Severity == {"high", "medium", "low"}

\* z.number() admits every number
LineNumbers == {0, 7}

Vulnerability == [severity : Severity, line : LineNumbers]

VulnerabilityLists == UNION {[1..n -> Vulnerability] : n \in 0..MaxVulns}

\* The summary the model reports for itself, right or off by one
SummariesFor(items) ==
  [totalIssues : {Len(items), Len(items) + 1}, criticalFindings : {<<>>},
   overallRisk : {"low"}]

TransportFailure == PlainError(Msg("fetch failed"))

\* What awaiting generateObject gives for the analysis request
AnalysisOutcomes ==
  { Throw(TransportFailure), Throw(NonErrorThrown("aborted")),
    Ok([object |-> NULL]),
    Ok([object |-> [summary |-> [totalIssues |-> 0, criticalFindings |-> <<>>,
                                 overallRisk |-> "low"]]]),
    Ok([object |-> [vulnerabilities |-> NotAnArray,
                    summary |-> [totalIssues |-> 0, criticalFindings |-> <<>>,
                                 overallRisk |-> "low"]]]) }
  \cup UNION { { Ok([object |-> [vulnerabilities |-> JsArray(items), summary |-> sm]]) :
                   sm \in SummariesFor(items) } : items \in VulnerabilityLists }

RiskAssessment == [overallRisk |-> "low", priorityAreas |-> <<>>]

NARRATIVE == "The codebase shows a sound security posture."

\* What awaiting generateObject gives for the insight request
InsightOutcomes ==
  { Throw(TransportFailure), Throw(NonErrorThrown("aborted")),
    Ok([object |-> NULL]),
    Ok([object |-> [riskAssessment |-> RiskAssessment]]),
    Ok([object |-> [analysis |-> "", riskAssessment |-> RiskAssessment]]),
    Ok([object |-> [analysis |-> NARRATIVE]]),
    Ok([object |-> [analysis |-> NARRATIVE, riskAssessment |-> RiskAssessment]]) }

(***************************************************************************)
(* JSON.stringify(value, null, 2) and JSON.parse.  A value is a tree of    *)
(* nodes of one shape; a text is a sequence of characters.  A string that  *)
(* holds none of the characters JSON escapes stays one element of the text *)
(* (Text), the others are spelled out character by character.              *)
(***************************************************************************)
JString(s) == [t |-> "string", s |-> s, n |-> 0, kids |-> <<>>]
JNumber(n) == [t |-> "number", s |-> <<>>, n |-> n, kids |-> <<>>]
JArray(kids) == [t |-> "array", s |-> <<>>, n |-> 0, kids |-> kids]
JObject(members) == [t |-> "object", s |-> <<>>, n |-> 0, kids |-> members]
JMember(key, value) == [t |-> "member", s |-> key, n |-> 0, kids |-> <<value>>]

WINDOWS_PATH == "lib\\db.ts"
QUOTED_DESCRIPTION == "eval(\"x\")"
TWO_LINE_RECOMMENDATION == "Escape.\n\tTest."
QUOTED_NARRATIVE == "Fix \"eval\" first."

Spelling ==
  (WINDOWS_PATH :> <<"l", "i", "b", "\\", "d", "b", ".", "t", "s">>)
  @@ (QUOTED_DESCRIPTION :> <<"e", "v", "a", "l", "(", "\"", "x", "\"", ")">>)
  @@ (TWO_LINE_RECOMMENDATION :>
        <<"E", "s", "c", "a", "p", "e", ".", "\n", "\t", "T", "e", "s", "t", ".">>)
  @@ (QUOTED_NARRATIVE :> <<"F", "i", "x", " ", "\"", "e", "v", "a", "l", "\"",
                            " ", "f", "i", "r", "s", "t", ".">>)
  @@ ("" :> <<>>)

\* the characters of a string
Text(s) == IF s \in DOMAIN Spelling THEN Spelling[s] ELSE <<s>>

RECURSIVE Concat(_)
Concat(seqs) == IF seqs = <<>> THEN <<>> ELSE Head(seqs) \o Concat(Tail(seqs))

DIGITS == <<"0", "1", "2", "3", "4", "5", "6", "7", "8", "9">>

RECURSIVE digits(_)
digits(n) ==
  IF n < 10 THEN <<DIGITS[n + 1]>>
  ELSE digits(n \div 10) \o <<DIGITS[(n % 10) + 1]>>

\* Number::toString of an integer
numberToString(n) == IF n < 0 THEN <<"-">> \o digits(-n) ELSE digits(n)

escapeChar(c) ==
  CASE c = "\"" -> <<"\\", "\"">>
    [] c = "\\" -> <<"\\", "\\">>
    [] c = "\n" -> <<"\\", "n">>
    [] c = "\t" -> <<"\\", "t">>
    [] OTHER -> <<c>>

\* a string between quotes with no escaping at all
quoteRaw(s) == <<"\"">> \o s \o <<"\"">>

\* QuoteJSONString
quote(s) ==
  <<"\"">> \o Concat([k \in 1..Len(s) |-> escapeChar(s[k])]) \o <<"\"">>

\* a line break and the indentation of the given depth (gap of 2)
newline(depth) == <<"\n">> \o [k \in 1..(2 * depth) |-> " "]

RECURSIVE serialize(_, _)
serialize(v, depth) ==
  CASE v.t = "string" -> quote(v.s)
    [] v.t = "number" -> numberToString(v.n)
    [] v.t = "member" -> quote(v.s) \o <<":", " ">> \o serialize(v.kids[1], depth)
    [] OTHER ->
         LET open == IF v.t = "array" THEN "[" ELSE "{"
             close == IF v.t = "array" THEN "]" ELSE "}"
             n == Len(v.kids)
         IN IF n = 0 THEN <<open, close>>
            ELSE <<open>>
                 \o Concat([k \in 1..n |->
                      newline(depth + 1) \o serialize(v.kids[k], depth + 1)
                      \o (IF k < n THEN <<",">> ELSE <<>>)])
                 \o newline(depth) \o <<close>>

JSON_stringify(v) == serialize(v, 0)

isDigit(c) == c \in Range(DIGITS)
digitValue(c) == CHOOSE d \in 0..9 : DIGITS[d + 1] = c

Fail(i) == [ok |-> FALSE, value |-> NULL, pos |-> i]
Parsed(v, i) == [ok |-> TRUE, value |-> v, pos |-> i]

\* the character at a position, "" past the end of the text
charAt(text, i) == IF i <= Len(text) THEN text[i] ELSE ""

RECURSIVE skipWhitespace(_, _)
skipWhitespace(text, i) ==
  IF charAt(text, i) \in {" ", "\n", "\t"} THEN skipWhitespace(text, i + 1) ELSE i

\* a string after its opening quote
RECURSIVE parseString(_, _, _)
parseString(text, i, acc) ==
  LET c == charAt(text, i) IN
  CASE c = "" -> Fail(i)
    [] c = "\"" -> Parsed(JString(acc), i + 1)
    [] c \in {"\n", "\t"} -> Fail(i)
    [] c = "\\" ->
         LET e == charAt(text, i + 1) IN
         CASE e \in {"\"", "\\"} -> parseString(text, i + 2, Append(acc, e))
           [] e = "n" -> parseString(text, i + 2, Append(acc, "\n"))
           [] e = "t" -> parseString(text, i + 2, Append(acc, "\t"))
           [] OTHER -> Fail(i)
    [] OTHER -> parseString(text, i + 1, Append(acc, c))

RECURSIVE parseDigits(_, _, _)
parseDigits(text, i, acc) ==
  IF isDigit(charAt(text, i))
    THEN parseDigits(text, i + 1, acc * 10 + digitValue(charAt(text, i)))
    ELSE Parsed(JNumber(acc), i)

parseNumber(text, i) ==
  IF charAt(text, i) = "-"
    THEN IF isDigit(charAt(text, i + 1))
           THEN LET r == parseDigits(text, i + 1, 0)
                IN Parsed(JNumber(-r.value.n), r.pos)
           ELSE Fail(i)
    ELSE parseDigits(text, i, 0)

closing(kind) == IF kind = "array" THEN "]" ELSE "}"

RECURSIVE parseValue(_, _)
parseMember(text, i) ==
  LET j == skipWhitespace(text, i) IN
  IF charAt(text, j) # "\"" THEN Fail(j)
  ELSE LET key == parseString(text, j + 1, <<>>) IN
       IF ~key.ok THEN key
       ELSE LET c == skipWhitespace(text, key.pos) IN
            IF charAt(text, c) # ":" THEN Fail(c)
            ELSE LET val == parseValue(text, c + 1) IN
                 IF ~val.ok THEN val
                 ELSE Parsed(JMember(key.value.s, val.value), val.pos)

\* the elements of an array or the members of an object, up to its closing bracket
RECURSIVE parseItems(_, _, _, _)
parseItems(text, i, kind, acc) ==
  LET item == IF kind = "array" THEN parseValue(text, i) ELSE parseMember(text, i) IN
  IF ~item.ok THEN item
  ELSE LET j == skipWhitespace(text, item.pos)
           c == charAt(text, j)
           items == Append(acc, item.value)
       IN CASE c = "," -> parseItems(text, j + 1, kind, items)
            [] c = closing(kind) ->
                 Parsed(IF kind = "array" THEN JArray(items) ELSE JObject(items), j + 1)
            [] OTHER -> Fail(j)

parseValue(text, i) ==
  LET j == skipWhitespace(text, i)
      c == charAt(text, j)
  IN CASE c = "\"" -> parseString(text, j + 1, <<>>)
       [] c \in {"[", "{"} ->
            LET kind == IF c = "[" THEN "array" ELSE "object"
                k == skipWhitespace(text, j + 1)
            IN IF charAt(text, k) = closing(kind)
                 THEN Parsed(IF kind = "array" THEN JArray(<<>>) ELSE JObject(<<>>), k + 1)
                 ELSE parseItems(text, j + 1, kind, <<>>)
       [] c = "-" \/ isDigit(c) -> parseNumber(text, j)
       [] OTHER -> Fail(j)

JSON_parse(text) ==
  LET r == parseValue(text, 1) IN
  IF r.ok /\ skipWhitespace(text, r.pos) = Len(text) + 1
    THEN Ok(r.value)
    ELSE Throw(NewError("SyntaxError", Msg("Unexpected token in JSON"), NO_CAUSE))

\* the fields of a Vulnerability, in the order of the interface
VULNERABILITY_FIELDS == <<"severity", "file", "line", "description", "recommendation">>

vulnerabilityValue(v) ==
  LET present(f) == f \in DOMAIN v
      fields == SelectSeq(VULNERABILITY_FIELDS, present)
  IN JObject([k \in 1..Len(fields) |->
       JMember(Text(fields[k]),
               IF fields[k] = "line" THEN JNumber(v.line)
               ELSE JString(Text(v[fields[k]])))])

\* the VulnerabilityReport object that generateReport returns, as a value
reportValue(rep) ==
  JObject(<<
    JMember(Text("vulnerabilities"),
            JArray([k \in 1..Len(rep.vulnerabilities.items) |->
                      vulnerabilityValue(rep.vulnerabilities.items[k])])),
    JMember(Text("summary"),
            JObject(<<JMember(Text("total"), JNumber(rep.summary.total)),
                      JMember(Text("high"), JNumber(rep.summary.high)),
                      JMember(Text("medium"), JNumber(rep.summary.medium)),
                      JMember(Text("low"), JNumber(rep.summary.low))>>)),
    JMember(Text("insights"),
            JArray([k \in 1..Len(rep.insights) |-> JString(Text(rep.insights[k]))]))>>)

\* JSON.stringify(report, null, 2) as written by fs.writeFile
writtenDocument(rep) == JSON_stringify(reportValue(rep))

InitScan ==
  /\ pc = "start"
  /\ configFile \in ConfigFiles
  /\ config = NULL
  /\ dirArg \in {<<>>, ROOT_DIR}
  /\ options \in [output : BOOLEAN, pdf : BOOLEAN]
  /\ listing \in ScanListings
  /\ context = NULL /\ analysisRequests = 0 /\ analysisResponse = NULL
  /\ vulnerabilities = NULL /\ insightPrompt = NULL /\ insightRequests = 0
  /\ insightResponse = NULL /\ insights = NULL /\ report = NULL
  /\ rendered = FALSE /\ outputFile = NULL /\ error = NULL
  /\ stderr = <<>> /\ exitCode = -1 /\ trace = <<>>
  /\ IdleDisc
  /\ IdleCtx
  /\ IdleAux

\* the catch of the scan action with a failure of the PDF export only logged
HandleAndLogPdf(err, contextName) ==
  /\ error' = err
  /\ stderr' = ErrorHandler_handle(err, contextName)
  /\ exitCode' = IF contextName = "PDF Export" THEN 0 ELSE 1
  /\ pc' = "exited"

\* the catch of the scan action: ErrorHandler.handle(error, 'Scan'), process.exit(1)
HandleAndExit(err, contextName) ==
  /\ error' = err
  /\ stderr' = ErrorHandler_handle(err, contextName)
  /\ exitCode' = 1
  /\ pc' = "exited"

\* cli.ts: configManager.getConfig() and the check that a configuration exists
LoadConfiguration ==
  /\ pc = "start"
  /\ LET c == getConfig(config, configFile) IN
     /\ config' = c.cache
     /\ IF ~c.res.ok THEN HandleAndExit(c.res.error, "Scan")
        ELSE IF c.res.value = NULL
          THEN HandleAndExit(ConfigurationError(
                 Msg("No configuration found. Please run \"vibe-check config setup\" first.")),
                 "Scan")
        ELSE /\ pc' = "configured"
             /\ UNCHANGED <<error, stderr, exitCode>>
  /\ UNCHANGED <<configFile, dirArg, options, context, analysisRequests,
                 analysisResponse, vulnerabilities, insightPrompt, insightRequests,
                 insightResponse, insights, report, rendered, outputFile, trace,
                 listing, discVars, ctxVars, auxVars>>

\* analyzeCodebase(dir) up to its remote request
StartAnalysis ==
  /\ pc = "configured"
  /\ LET a == analyzeCodebaseUntilRequest(dirArg, config, listing)
         started == IF a.attempted THEN <<"contextBuild">> ELSE <<>>
     IN IF ~a.res.ok
          THEN /\ HandleAndExit(a.res.error, "Scan")
               /\ trace' = trace \o started
               /\ UNCHANGED <<context, analysisRequests>>
          ELSE /\ context' = a.res.value
               /\ analysisRequests' = analysisRequests + 1
               /\ trace' = trace \o started \o <<"analysisRequest">>
               /\ pc' = "awaitAnalysis"
               /\ UNCHANGED <<error, stderr, exitCode>>
  /\ UNCHANGED <<configFile, config, dirArg, options, analysisResponse,
                 vulnerabilities, insightPrompt, insightRequests, insightResponse,
                 insights, report, rendered, outputFile, listing, discVars, ctxVars, auxVars>>

\* The analysis response arrives, with a failed request issued once more
AnalysisResponseRetry(outcome) ==
  /\ pc = "awaitAnalysis"
  /\ analysisResponse' = outcome
  /\ IF ~outcome.ok /\ analysisRequests < 2
       THEN /\ analysisRequests' = analysisRequests + 1
            /\ UNCHANGED <<context, vulnerabilities, insightPrompt, insightRequests,
                           trace, error, stderr, exitCode, pc>>
       ELSE
         /\ context' = NULL
         /\ UNCHANGED analysisRequests
         /\ LET r == analyzeCodebaseFromResponse(outcome) IN
            IF ~r.ok
              THEN /\ HandleAndExit(r.error, "Scan")
                   /\ UNCHANGED <<vulnerabilities, insightPrompt, insightRequests, trace>>
              ELSE /\ vulnerabilities' = r.value
                   /\ LET g == generateInsightsUntilRequest(r.value, config) IN
                      IF ~g.ok
                        THEN /\ HandleAndExit(g.error, "Scan")
                             /\ UNCHANGED <<insightPrompt, insightRequests, trace>>
                        ELSE /\ insightPrompt' = g.value
                             /\ insightRequests' = insightRequests + 1
                             /\ trace' = Append(trace, "insightRequest")
                             /\ pc' = "awaitInsights"
                             /\ UNCHANGED <<error, stderr, exitCode>>
  /\ UNCHANGED <<configFile, config, dirArg, options,
                 insightResponse, insights, report, rendered, outputFile,
                 listing, discVars, ctxVars, auxVars>>

\* The analysis response arrives: analyzeCodebase validates and returns it, and
\* generateInsights runs up to its remote request
AnalysisResponse(outcome) ==
  /\ pc = "awaitAnalysis"
  /\ analysisResponse' = outcome
  /\ context' = NULL
  /\ LET r == analyzeCodebaseFromResponse(outcome) IN
     IF ~r.ok
       THEN /\ HandleAndExit(r.error, "Scan")
            /\ UNCHANGED <<vulnerabilities, insightPrompt, insightRequests, trace>>
       ELSE /\ vulnerabilities' = r.value
            /\ LET g == generateInsightsUntilRequest(r.value, config) IN
               IF ~g.ok
                 THEN /\ HandleAndExit(g.error, "Scan")
                      /\ UNCHANGED <<insightPrompt, insightRequests, trace>>
                 ELSE /\ insightPrompt' = g.value
                      /\ insightRequests' = insightRequests + 1
                      /\ trace' = Append(trace, "insightRequest")
                      /\ pc' = "awaitInsights"
                      /\ UNCHANGED <<error, stderr, exitCode>>
  /\ UNCHANGED <<configFile, config, dirArg, options, analysisRequests,
                 insightResponse, insights, report, rendered, outputFile,
                 listing, discVars, ctxVars, auxVars>>

\* The insight response arrives, with the report's total taken from the
\* summary the model reported
InsightResponseTrustingSummary(outcome) ==
  /\ pc = "awaitInsights"
  /\ insightResponse' = outcome
  /\ LET r == generateInsightsFromResponse(outcome) IN
     IF ~r.ok
       THEN /\ HandleAndExit(r.error, "Scan")
            /\ UNCHANGED <<insights, report, rendered, trace>>
       ELSE /\ insights' = r.value
            /\ trace' = Append(trace, "reportAssembly")
            /\ report' = [generateReport(vulnerabilities, r.value) EXCEPT
                            !.summary.total =
                               analysisResponse.value.object.summary.totalIssues]
            /\ rendered' = TRUE
            /\ pc' = IF options.output THEN "output" ELSE "pdf"
            /\ UNCHANGED <<error, stderr, exitCode>>
  /\ UNCHANGED <<configFile, config, dirArg, options, context, analysisRequests,
                 analysisResponse, vulnerabilities, insightPrompt, insightRequests,
                 outputFile, listing, discVars, ctxVars, auxVars>>

\* The insight response arrives: generateInsights validates and returns it, the
\* report is assembled and returned, and the action prints it
InsightResponse(outcome) ==
  /\ pc = "awaitInsights"
  /\ insightResponse' = outcome
  /\ LET r == generateInsightsFromResponse(outcome) IN
     IF ~r.ok
       THEN /\ HandleAndExit(r.error, "Scan")
            /\ UNCHANGED <<insights, report, rendered, trace>>
       ELSE /\ insights' = r.value
            /\ trace' = Append(trace, "reportAssembly")
            /\ report' = generateReport(vulnerabilities, r.value)
            /\ rendered' = TRUE
            /\ pc' = IF options.output THEN "output" ELSE "pdf"
            /\ UNCHANGED <<error, stderr, exitCode>>
  /\ UNCHANGED <<configFile, config, dirArg, options, context, analysisRequests,
                 analysisResponse, vulnerabilities, insightPrompt, insightRequests,
                 outputFile, listing, discVars, ctxVars, auxVars>>

\* --output: fs.writeFile(options.output, JSON.stringify(report, null, 2))
WriteOutput(written) ==
  /\ pc = "output"
  /\ IF written
       THEN /\ outputFile' = writtenDocument(report)
            /\ pc' = "pdf"
            /\ UNCHANGED <<error, stderr, exitCode>>
       ELSE /\ HandleAndExit(PlainError(Msg("EACCES: permission denied")), "Scan")
            /\ UNCHANGED outputFile
  /\ UNCHANGED <<configFile, config, dirArg, options, context, analysisRequests,
                 analysisResponse, vulnerabilities, insightPrompt, insightRequests,
                 insightResponse, insights, report, rendered, trace,
                 listing, discVars, ctxVars, auxVars>>

\* What the PDF step comes to: with --pdf the export succeeds or fails; without
\* it the user declines, the prompt fails, an existing file is kept, or the
\* export the user asked for succeeds or fails
PdfOutcomes == {"generated", "failed", "declined", "promptError", "overwriteDeclined"}

PDFGenerationError(message) == [name |-> "PDFGenerationError", message |-> message]

\* The PDF export and the end of the action
PdfStep(outcome) ==
  /\ pc = "pdf"
  /\ options.pdf => outcome \in {"generated", "failed"}
  /\ IF outcome = "failed"
       THEN HandleAndExit(PDFGenerationError(Msg("PDF generation failed")), "PDF Export")
       ELSE /\ exitCode' = 0
            /\ pc' = "exited"
            /\ UNCHANGED <<error, stderr>>
  /\ UNCHANGED <<configFile, config, dirArg, options, context, analysisRequests,
                 analysisResponse, vulnerabilities, insightPrompt, insightRequests,
                 insightResponse, insights, report, rendered, outputFile, trace,
                 listing, discVars, ctxVars, auxVars>>

Next ==
  \/ LoadConfiguration
  \/ StartAnalysis
  \/ \E outcome \in AnalysisOutcomes : AnalysisResponse(outcome)
  \/ \E outcome \in InsightOutcomes : InsightResponse(outcome)
  \/ \E written \in BOOLEAN : WriteOutput(written)
  \/ \E outcome \in PdfOutcomes : PdfStep(outcome)

Spec == InitScan /\ [][Next]_vars

(***************************************************************************)
(* Properties of file discovery.                                           *)
(***************************************************************************)
AllowListed(name) ==
  \E e \in SUPPORTED_EXTENSIONS : e[1] = toLowerCase(extname(name))

ExcludedDirName(name) == name[1] = "." \/ name \in IGNORED_DIRS

UnderExcludedDir(p) ==
  \E k \in 1..(Len(p) - 1) : ExcludedDirName(p[k])

QualifyingFiles ==
  {p \in DOMAIN tree : tree[p].kind = "file" /\ AllowListed(Last(p)) /\ ~UnderExcludedDir(p)}

\* C6: whenever scanDirectory returns, the paths it returns are exactly the regular
\* files with an allow-listed extension that lie under no directory whose name
\* starts with "." or is in the ignore-list, each returned once.
C6_DiscoveryExact ==
  (scanned # NULL /\ scanned.ok) =>
    /\ Range(scanned.files) = {ROOT_DIR \o p : p \in QualifyingFiles}
    /\ Len(scanned.files) = Cardinality(QualifyingFiles)

\* A scan that returned a file nested under src/ while a supported file lay under dist/
C6_Witness ==
  /\ scanned # NULL /\ scanned.ok
  /\ \E p \in DOMAIN tree :
       /\ Len(p) = 2 /\ p[1] = <<"d", "i", "s", "t">>
       /\ tree[p].kind = "file" /\ AllowListed(Last(p))
  /\ \E p \in QualifyingFiles : Len(p) = 2 /\ ROOT_DIR \o p \in Range(scanned.files)

(***************************************************************************)
(* Properties of the context builder and the condenser.                    *)
(***************************************************************************)
Condensed == ctxPc \in {"condensed", "recondensed"} /\ condensed.ok

PrimaryTier(f) == f.language = "typescript" \/ f.language = "javascript"

\* a ranks strictly before b in the priority order
Outranks(a, b) ==
  \/ PrimaryTier(a) /\ ~PrimaryTier(b)
  \/ PrimaryTier(a) = PrimaryTier(b) /\ a.size > b.size

\* C4: getCondensedContext(root, N) returns min(N, available) files of the built
\* context, primary-tier files before all others and sizes non-increasing within a
\* tier, and no file left out ranks before a file kept.
C4_CondensedByPriority ==
  Condensed =>
    LET out == condensed.value.files
        all == built.value.files
    IN /\ Len(out) = Min(maxFiles, Len(all))
       /\ \A i \in 1..Len(out) : out[i] \in Range(all)
       /\ \A i, j \in 1..Len(out) : i < j => out[i].path # out[j].path
       /\ \A i, j \in 1..Len(out) : i < j => ~Outranks(out[j], out[i])
       /\ \A k \in 1..Len(all) :
            all[k] \notin Range(out) => \A i \in 1..Len(out) : ~Outranks(all[k], out[i])

\* Scenario C: of 10 .ts and 10 larger .py files, N = 15 keeps the 10 .ts files
\* and then the 5 largest .py files
C4_Witness ==
  /\ Condensed /\ listing = ScenarioC /\ maxFiles = ANALYSIS_MAX_FILES
  /\ Len(condensed.value.files) = 15
  /\ \A i \in 1..10 : condensed.value.files[i].language = "typescript"
  /\ [i \in 1..5 |-> condensed.value.files[10 + i].size] = <<2900, 2700, 2500, 2300, 2100>>

IndexIn(all, f) == CHOOSE k \in 1..Len(all) : all[k] = f

\* C5: condensation is reproducible and idempotent: files that tie in the priority
\* order keep the order the built context has them in, and condensing a condensed
\* context again with the same N gives it back unchanged, summary included.
C5_CondenseIdempotent ==
  /\ Condensed =>
       LET out == condensed.value.files
           all == built.value.files
       IN \A i, j \in 1..Len(out) :
            (i < j /\ ~Outranks(out[i], out[j])) => IndexIn(all, out[i]) < IndexIn(all, out[j])
  /\ ctxPc = "recondensed" => recondensed = condensed.value

\* A truncated condensed context holding two files of one tier and one size, condensed again
C5_Witness ==
  /\ ctxPc = "recondensed"
  /\ Len(condensed.value.files) < Len(built.value.files)
  /\ \E i, j \in 1..Len(condensed.value.files) :
       /\ i < j
       /\ PrimaryTier(condensed.value.files[i]) = PrimaryTier(condensed.value.files[j])
       /\ condensed.value.files[i].size = condensed.value.files[j].size

SummaryConsistent(ctx) ==
  /\ ctx.summary.totalFiles = Len(ctx.files)
  /\ ctx.summary.totalLines =
       SumSeq([i \in 1..Len(ctx.files) |-> ctx.files[i].content.newlines + 1])
  /\ SumFun(ctx.summary.languages, DOMAIN ctx.summary.languages) = ctx.summary.totalFiles
  /\ \A l \in DOMAIN ctx.summary.languages :
       ctx.summary.languages[l] =
         Cardinality({i \in 1..Len(ctx.files) : ctx.files[i].language = l})

\* C7: the summary of every context buildContext or getCondensedContext returns
\* counts that context's own files: totalFiles is their number, totalLines the sum
\* of their line counts, and the per-language counts sum to totalFiles.
C7_SummaryMatchesFiles ==
  /\ (ctxPc # "idle" /\ built.ok) => SummaryConsistent(built.value)
  /\ Condensed => SummaryConsistent(condensed.value)

\* A condensed context shorter than the built one, with files of several lines
C7_Witness ==
  /\ Condensed
  /\ Len(condensed.value.files) > 0
  /\ Len(condensed.value.files) < Len(built.value.files)
  /\ condensed.value.summary.totalLines > condensed.value.summary.totalFiles
  /\ condensed.value.summary.totalLines < built.value.summary.totalLines

IsAccepted(f) == f.readable /\ f.content.length <= 102400

Accepted == SelectSeq(listing.files, IsAccepted)

\* C8: the files of a built context are the discovered files that could be read
\* and hold at most 102400 characters, in discovery order; when at least one file
\* is accepted, buildContext does not fail.
C8_AcceptedFilesOnly ==
  (ctxPc # "idle" /\ listing.ok) =>
    /\ Len(Accepted) > 0 => built.ok
    /\ built.ok =>
         /\ Len(built.value.files) = Len(Accepted)
         /\ \A i \in 1..Len(Accepted) :
              /\ ROOT_DIR \o built.value.files[i].path = Accepted[i].path
              /\ built.value.files[i].size = Accepted[i].content.length
              /\ built.value.files[i].content = Accepted[i].content

\* Scenario B: of a 200 KiB .js file and a 2 KiB .py file only the .py file is kept
C8_Witness ==
  /\ ctxPc = "built" /\ listing = ScenarioB /\ built.ok
  /\ built.value.summary.totalFiles = 1
  /\ Len(built.value.files) = 1
  /\ built.value.files[1].language = "python"

\* C9: buildContext never returns a context without files; it throws a
\* ContextBuildError, with one message when discovery found nothing and another
\* when every discovered file was unreadable or oversized.
C9_NeverEmptyContext ==
  ctxPc # "idle" =>
    /\ built.ok => Len(built.value.files) > 0
    /\ (listing.ok /\ Len(listing.files) = 0) =>
         /\ ~built.ok
         /\ built.error.name = "ContextBuildError"
         /\ built.error.message = <<"No supported files found in directory: ${rootDir}">>
    /\ (listing.ok /\ Len(listing.files) > 0 /\ Len(Accepted) = 0) =>
         /\ ~built.ok
         /\ built.error.name = "ContextBuildError"
         /\ built.error.message =
              <<"No readable files found or all files exceed maximum size limit">>

\* Discovery found an unreadable and an oversized file, and nothing else
C9_Witness ==
  /\ ctxPc = "built" /\ listing.ok /\ ~built.ok
  /\ \E i \in 1..Len(listing.files) : ~listing.files[i].readable
  /\ \E i \in 1..Len(listing.files) :
       listing.files[i].readable /\ listing.files[i].content.length > 102400
  /\ built.error.message =
       <<"No readable files found or all files exceed maximum size limit">>

(***************************************************************************)
(* Properties of the scan pipeline.                                        *)
(***************************************************************************)
StageOrder == <<"contextBuild", "analysisRequest", "insightRequest", "reportAssembly">>

Started(stage) == stage \in Range(trace)

\* the remote analysis call returned an object whose vulnerabilities are an array
ValidAnalysis(r) ==
  /\ r.ok
  /\ r.value.object # NULL
  /\ "vulnerabilities" \in DOMAIN r.value.object
  /\ r.value.object.vulnerabilities.type = "array"

\* the remote insight call returned a narrative and a risk assessment
ValidInsight(r) ==
  /\ r.ok
  /\ r.value.object # NULL
  /\ "analysis" \in DOMAIN r.value.object
  /\ r.value.object.analysis # ""
  /\ "riskAssessment" \in DOMAIN r.value.object

\* C1: the stages of a scan start in the order context build, analysis request,
\* insight request, report assembly, each once and only after the one before it
\* completed: no insight request without a vulnerability array returned by the
\* analysis, no report without the insights returned.
C1_StagesInOrder ==
  /\ Len(trace) <= Len(StageOrder)
  /\ trace = SubSeq(StageOrder, 1, Len(trace))
  /\ analysisRequests = (IF Started("analysisRequest") THEN 1 ELSE 0)
  /\ insightRequests = (IF Started("insightRequest") THEN 1 ELSE 0)
  /\ pc = "awaitAnalysis" => (context # NULL /\ Len(context.files) > 0)
  /\ insightRequests > 0 =>
       /\ analysisResponse # NULL /\ ValidAnalysis(analysisResponse)
       /\ vulnerabilities = analysisResponse.value.object.vulnerabilities
  /\ (report # NULL) = Started("reportAssembly")
  /\ report # NULL =>
       /\ insightResponse # NULL /\ ValidInsight(insightResponse)
       /\ insights = <<insightResponse.value.object.analysis>>

\* A scan that went through all four stages and ended with status 0
C1_Witness ==
  /\ pc = "exited" /\ exitCode = 0
  /\ trace = StageOrder
  /\ report # NULL /\ Len(report.vulnerabilities.items) > 0

ContextBuildFailed ==
  pc = "exited" /\ Started("contextBuild") /\ ~Started("analysisRequest")

AnalysisFailed == analysisResponse # NULL /\ ~ValidAnalysis(analysisResponse)

InsightFailed == insightResponse # NULL /\ ~ValidInsight(insightResponse)

\* C2: when context building, the analysis request, the validation of its
\* response or the insight request fails, there is no report, nothing is printed
\* as a report or written to the --output file, and the error reaches
\* ErrorHandler.handle, which ends the process with status 1.
C2_NoReportOnFailure ==
  (ContextBuildFailed \/ AnalysisFailed \/ InsightFailed) =>
    /\ report = NULL
    /\ ~rendered
    /\ outputFile = NULL
    /\ pc = "exited" /\ error # NULL /\ stderr # <<>> /\ exitCode = 1

\* A scan with --output whose insight request failed after vulnerabilities were found
C2_Witness ==
  /\ InsightFailed /\ options.output /\ pc = "exited"
  /\ vulnerabilities # NULL /\ Len(vulnerabilities.items) > 0
  /\ error.name = "InsightGenerationError"

CountOf(items, sev) == Cardinality({i \in 1..Len(items) : items[i].severity = sev})

\* C3: in every report generateReport builds, summary.total = high + medium + low
\* = the number of vulnerabilities, each count is that of its severity, and the
\* vulnerabilities and insights are the ones it was given.
C3_ReportSummaryPartition ==
  report # NULL =>
    /\ report.summary.total = report.summary.high + report.summary.medium + report.summary.low
    /\ report.summary.total = Len(report.vulnerabilities.items)
    /\ report.summary.high = CountOf(report.vulnerabilities.items, "high")
    /\ report.summary.medium = CountOf(report.vulnerabilities.items, "medium")
    /\ report.summary.low = CountOf(report.vulnerabilities.items, "low")
    /\ report.vulnerabilities = vulnerabilities
    /\ report.insights = insights

\* A report over vulnerabilities of all three severities
C3_Witness ==
  /\ report # NULL
  /\ report.summary.high > 0 /\ report.summary.medium > 0 /\ report.summary.low > 0

OnMissingOrEmptyDirectory ==
  /\ pc = "exited" /\ config # NULL /\ dirArg = ROOT_DIR
  /\ ~listing.ok \/ Len(listing.files) = 0

\* C10: a scan of a nonexistent directory, or of one without supported files, is
\* reported as a ContextBuildError: "Context Build Error: Failed to scan
\* directory ..." respectively "Context Build Error: No supported files found ...".
C10_ContextBuildErrorReported ==
  OnMissingOrEmptyDirectory =>
    /\ error.name = "ContextBuildError"
    /\ stderr[1] = <<"[", "Scan", "] ", "Context Build Error: ">>
                   \o (IF listing.ok
                         THEN <<"No supported files found in directory: ${rootDir}">>
                         ELSE <<"Failed to scan directory: ${rootDir}">>)

(***************************************************************************)
(* Entries that cannot be listed.                                          *)
(***************************************************************************)
UnderUnlistableDir(p) ==
  \E k \in 1..(Len(p) - 1) :
    LET d == SubSeq(p, 1, k) IN tree[d].kind = "dir" /\ ~tree[d].listable

\* C11: a subdirectory under the scanned root that cannot be listed is skipped:
\* the scan of an existing root returns, with the qualifying files that lie
\* outside the directories that cannot be listed.
C11_UnlistableEntrySkipped ==
  (scanned # NULL /\ rootExists) =>
    /\ scanned.ok
    /\ Range(scanned.files) =
         {ROOT_DIR \o p : p \in {q \in QualifyingFiles : ~UnderUnlistableDir(q)}}

(***************************************************************************)
(* The two clients called on their own: a caller constructs a CodeAnalyzer *)
(* or an InsightGenerator with any Config (the constructors check nothing) *)
(* and calls analyzeCodebase(dirArg) or generateInsights(argument).  The   *)
(* error thrown to the caller is kept in `error`.                          *)
(***************************************************************************)
ClientConfigs == [apiKey : {"", "sk-or-key"}, model : {"", "deepseek-r1"}]

\* A list longer than the sample of the insight prompt: four low findings, six
\* medium ones, then two high ones
LongFindings ==
  [i \in 1..(INSIGHT_SAMPLE + 2) |->
     [severity |-> IF i <= 4 THEN "low" ELSE IF i <= 10 THEN "medium" ELSE "high",
      line |-> 100 + i]]

\* What a caller can pass to generateInsights
InsightArguments ==
  {NotAnArray, JsArray(LongFindings)} \cup {JsArray(items) : items \in VulnerabilityLists}

\* The directories analyzeCodebase is called on: those of a scan and one with
\* more files than a prompt takes
CallListings == ScanListings \cup {ScenarioC}

InitCalls ==
  /\ pc = "caller"
  /\ configFile = NULL
  /\ config \in ClientConfigs
  /\ dirArg \in {<<>>, ROOT_DIR}
  /\ options = [output |-> FALSE, pdf |-> FALSE]
  /\ listing \in CallListings
  /\ context = NULL /\ analysisRequests = 0 /\ analysisResponse = NULL
  /\ vulnerabilities = NULL /\ insightPrompt = NULL /\ insightRequests = 0
  /\ insightResponse = NULL /\ insights = NULL /\ report = NULL
  /\ rendered = FALSE /\ outputFile = NULL /\ error = NULL
  /\ stderr = <<>> /\ exitCode = -1 /\ trace = <<>>
  /\ IdleDisc
  /\ IdleCtx
  /\ IdleAux

\* analyzeCodebase(dirArg) up to its remote request
CallAnalyzeCodebase ==
  /\ pc = "caller"
  /\ LET a == analyzeCodebaseUntilRequest(dirArg, config, listing)
         started == IF a.attempted THEN <<"analyzeCodebase", "contextBuild">>
                    ELSE <<"analyzeCodebase">>
     IN IF ~a.res.ok
          THEN /\ error' = a.res.error
               /\ pc' = "thrown"
               /\ trace' = trace \o started
               /\ UNCHANGED <<context, analysisRequests>>
          ELSE /\ context' = a.res.value
               /\ analysisRequests' = analysisRequests + 1
               /\ trace' = trace \o started \o <<"analysisRequest">>
               /\ pc' = "awaitAnalysis"
               /\ UNCHANGED error
  /\ UNCHANGED <<configFile, config, dirArg, options, analysisResponse,
                 vulnerabilities, insightPrompt, insightRequests, insightResponse,
                 insights, report, rendered, outputFile, stderr, exitCode,
                 listing, discVars, ctxVars, auxVars>>

\* analyzeCodebase from the response of its request to its return or throw
ReturnAnalysis(outcome) ==
  /\ pc = "awaitAnalysis"
  /\ analysisResponse' = outcome
  /\ LET r == analyzeCodebaseFromResponse(outcome) IN
     IF ~r.ok
       THEN /\ error' = r.error
            /\ pc' = "thrown"
            /\ UNCHANGED vulnerabilities
       ELSE /\ vulnerabilities' = r.value
            /\ pc' = "returned"
            /\ UNCHANGED error
  /\ UNCHANGED <<configFile, config, dirArg, options, context, analysisRequests,
                 insightPrompt, insightRequests, insightResponse, insights, report,
                 rendered, outputFile, stderr, exitCode, trace,
                 listing, discVars, ctxVars, auxVars>>

\* generateInsights(argument) up to its remote request
CallGenerateInsights(argument) ==
  /\ pc = "caller"
  /\ vulnerabilities' = argument
  /\ LET g == generateInsightsUntilRequest(argument, config) IN
     IF ~g.ok
       THEN /\ error' = g.error
            /\ pc' = "thrown"
            /\ trace' = Append(trace, "generateInsights")
            /\ UNCHANGED <<insightPrompt, insightRequests>>
       ELSE /\ insightPrompt' = g.value
            /\ insightRequests' = insightRequests + 1
            /\ trace' = trace \o <<"generateInsights", "insightRequest">>
            /\ pc' = "awaitInsights"
            /\ UNCHANGED error
  /\ UNCHANGED <<configFile, config, dirArg, options, context, analysisRequests,
                 analysisResponse, insightResponse, insights, report, rendered,
                 outputFile, stderr, exitCode, listing, discVars, ctxVars, auxVars>>

\* generateInsights from the response of its request to its return or throw
ReturnInsights(outcome) ==
  /\ pc = "awaitInsights"
  /\ insightResponse' = outcome
  /\ LET r == generateInsightsFromResponse(outcome) IN
     IF ~r.ok
       THEN /\ error' = r.error
            /\ pc' = "thrown"
            /\ UNCHANGED insights
       ELSE /\ insights' = r.value
            /\ pc' = "returned"
            /\ UNCHANGED error
  /\ UNCHANGED <<configFile, config, dirArg, options, context, analysisRequests,
                 analysisResponse, vulnerabilities, insightPrompt, insightRequests,
                 report, rendered, outputFile, stderr, exitCode, trace,
                 listing, discVars, ctxVars, auxVars>>

NextCalls ==
  \/ CallAnalyzeCodebase
  \/ \E outcome \in AnalysisOutcomes : ReturnAnalysis(outcome)
  \/ \E argument \in InsightArguments : CallGenerateInsights(argument)
  \/ \E outcome \in InsightOutcomes : ReturnInsights(outcome)

SpecCalls == InitCalls /\ [][NextCalls]_vars

(***************************************************************************)
(* Properties of the two clients.                                          *)
(***************************************************************************)
ConfigIncomplete == config.apiKey = "" \/ config.model = ""

\* C12: analyzeCodebase called with an empty root directory, API key or model,
\* and generateInsights called with a non-array, an empty API key or model,
\* throw ValidationError before the context build starts (no file is read) and
\* before any remote request.
C12_ValidationBeforeIO ==
  /\ (Started("analyzeCodebase") /\ (dirArg = <<>> \/ ConfigIncomplete)) =>
       /\ pc = "thrown" /\ error.name = "ValidationError"
       /\ ~Started("contextBuild") /\ context = NULL
       /\ analysisRequests = 0 /\ ~Started("analysisRequest")
  /\ (Started("generateInsights")
        /\ (vulnerabilities.type # "array" \/ ConfigIncomplete)) =>
       /\ pc = "thrown" /\ error.name = "ValidationError"
       /\ insightPrompt = NULL
       /\ insightRequests = 0 /\ ~Started("insightRequest")

\* analyzeCodebase refused an empty API key on a directory that holds readable files
C12_Witness ==
  /\ Started("analyzeCodebase") /\ pc = "thrown"
  /\ dirArg = ROOT_DIR /\ config.apiKey = "" /\ config.model # ""
  /\ listing.ok /\ \E i \in 1..Len(listing.files) :
       listing.files[i].readable /\ listing.files[i].content.length <= MAX_FILE_SIZE
  /\ error.name = "ValidationError"

\* C13: once the analysis request returned, analyzeCodebase returns if and only
\* if the response object is present and its vulnerabilities field is an array,
\* and then returns that array (an empty one included); otherwise it throws
\* AIAnalysisError and returns nothing.
C13_AnalysisReturnsIffArray ==
  (Started("analyzeCodebase") /\ analysisResponse # NULL) =>
    /\ (pc = "returned") = ValidAnalysis(analysisResponse)
    /\ pc = "returned" =>
         vulnerabilities = analysisResponse.value.object.vulnerabilities
    /\ pc # "returned" =>
         /\ pc = "thrown" /\ error.name = "AIAnalysisError"
         /\ vulnerabilities = NULL

\* analyzeCodebase returned the empty array of a response that holds one
C13_Witness ==
  /\ Started("analyzeCodebase") /\ pc = "returned"
  /\ analysisResponse.value.object.vulnerabilities = JsArray(<<>>)
  /\ vulnerabilities = JsArray(<<>>)

\* C14: when the response holds a non-empty narrative and a risk assessment,
\* generateInsights returns exactly one element, the narrative; and with an
\* array argument and a complete configuration it throws only because of what
\* the request gave, never because the array is empty.
C14_SingleNarrative ==
  /\ (Started("generateInsights") /\ insightResponse # NULL
        /\ ValidInsight(insightResponse)) =>
       /\ pc = "returned"
       /\ Len(insights) = 1
       /\ insights[1] = insightResponse.value.object.analysis
  /\ (Started("generateInsights") /\ pc = "thrown"
        /\ vulnerabilities.type = "array" /\ ~ConfigIncomplete) =>
       /\ insightResponse # NULL /\ ~ValidInsight(insightResponse)

\* generateInsights returned the narrative for an empty vulnerability array
C14_Witness ==
  /\ Started("generateInsights") /\ pc = "returned"
  /\ vulnerabilities = JsArray(<<>>)
  /\ insights = <<NARRATIVE>>

\* C15: when the insight request fails, or its response has no object, no
\* non-empty narrative or no risk assessment, generateInsights throws
\* InsightGenerationError and returns no insight list.
C15_InsightFailureThrows ==
  (Started("generateInsights") /\ InsightFailed) =>
    /\ pc = "thrown"
    /\ error.name = "InsightGenerationError"
    /\ insights = NULL

\* generateInsights threw on a response whose narrative is missing
C15_Witness ==
  /\ Started("generateInsights") /\ pc = "thrown"
  /\ insightResponse # NULL /\ insightResponse.ok
  /\ insightResponse.value.object # NULL
  /\ "analysis" \notin DOMAIN insightResponse.value.object
  /\ error.name = "InsightGenerationError"

(***************************************************************************)
(* Properties of the scan command: configuration, exit status, requests,   *)
(* and what the report is made of.                                         *)
(***************************************************************************)
UsableConfigFile ==
  configFile # NULL /\ configFile.apiKey # "" /\ configFile.model # ""

\* C16: a scan without a usable persisted configuration (no config file, or one
\* without a non-empty apiKey or model) ends with a ConfigurationError,
\* printed as "Configuration Error: ...", before the directory is read and
\* before any remote request.
C16_ConfigurationErrorReported ==
  (pc = "exited" /\ ~UsableConfigFile) =>
    /\ error.name = "ConfigurationError"
    /\ SubSeq(stderr[1], 1, 4) = <<"[", "Scan", "] ", "Configuration Error: ">>
    /\ trace = <<>> /\ analysisRequests = 0 /\ insightRequests = 0

\* C17: a scan command that ended has status 1 exactly when an error was
\* handed to ErrorHandler.handle, whatever its kind, and status 0 otherwise;
\* a handled error always ends the command.
C17_ExitStatus ==
  /\ pc = "exited" => exitCode = (IF error # NULL THEN 1 ELSE 0)
  /\ pc # "exited" => exitCode = -1 /\ error = NULL
  /\ error # NULL => stderr # <<>>

\* A scan whose report was printed and whose PDF export failed
C17_Witness ==
  /\ pc = "exited" /\ exitCode = 1
  /\ report # NULL /\ rendered
  /\ error.name = "PDFGenerationError"

\* C18: a scan issues at most one analysis request and at most one insight
\* request, and a request that failed ends the scan: it is not issued again
\* and nothing follows it.
C18_SingleRequests ==
  /\ analysisRequests \in {0, 1} /\ insightRequests \in {0, 1}
  /\ insightRequests <= analysisRequests
  /\ (analysisResponse # NULL /\ ~analysisResponse.ok) =>
       /\ pc = "exited" /\ exitCode = 1
       /\ analysisRequests = 1 /\ insightRequests = 0
  /\ (insightResponse # NULL /\ ~insightResponse.ok) =>
       /\ pc = "exited" /\ exitCode = 1
       /\ insightRequests = 1 /\ report = NULL

\* A scan whose analysis request failed in transport
C18_Witness ==
  /\ pc = "exited" /\ analysisRequests = 1
  /\ analysisResponse = Throw(TransportFailure)
  /\ error.name = "AIAnalysisError"

\* The report determined by a vulnerability array and a narrative alone
ReportFrom(array, narrative) ==
  [vulnerabilities |-> array,
   summary |-> [total  |-> Len(array.items),
                high   |-> CountOf(array.items, "high"),
                medium |-> CountOf(array.items, "medium"),
                low    |-> CountOf(array.items, "low")],
   insights |-> <<narrative>>]

\* C19: the report of a scan is determined by the vulnerabilities array of the
\* analysis response and the narrative alone, so that responses that differ
\* only in summary.totalIssues, criticalFindings or overallRisk give the same
\* report; summary.total is the array's length, not totalIssues; and the
\* insight prompt is built from the array alone.
C19_ReportIgnoresModelSummary ==
  /\ report # NULL =>
       report = ReportFrom(analysisResponse.value.object.vulnerabilities,
                           insightResponse.value.object.analysis)
  /\ insightPrompt # NULL =>
       /\ insightPrompt.vulnCount = Len(analysisResponse.value.object.vulnerabilities.items)
       /\ insightPrompt.highCount =
            CountOf(analysisResponse.value.object.vulnerabilities.items, "high")

\* A report built after the model reported one issue more than its array holds
C19_Witness ==
  /\ report # NULL
  /\ Len(report.vulnerabilities.items) > 0
  /\ analysisResponse.value.object.summary.totalIssues
       # Len(analysisResponse.value.object.vulnerabilities.items)

\* C20: every vulnerability analyzeCodebase returned, and every one in a
\* report, has a severity in {high, medium, low} and a line number that is a
\* positive integer.
C20_SeverityAndLineValid ==
  (vulnerabilities # NULL) =>
    \A i \in 1..Len(vulnerabilities.items) :
      /\ vulnerabilities.items[i].severity \in {"high", "medium", "low"}
      /\ vulnerabilities.items[i].line \in Nat \ {0}

(***************************************************************************)
(* Scan invocations interleaved in one process.  Each invocation of        *)
(* scanDirectoryForVulnerabilities has its own locals (config, the         *)
(* CodeAnalyzer with its ContextManager, vulnerabilities, insights, the    *)
(* report); what the invocations share is the configManager singleton with *)
(* its cache `config` and the config file.  One step per await.            *)
(***************************************************************************)
Invocations == 1..MaxInvocations

\* The directories the invocations scan
ConcurrentListings ==
  { [ok |-> FALSE, files |-> <<>>],
    [ok |-> TRUE, files |-> <<SmallFile(1, EXT_PY), SmallFile(2, EXT_TS)>>],
    ScenarioB }

HighAtLine7 == [severity |-> "high", line |-> 7]
LowAtLine0 == [severity |-> "low", line |-> 0]

\* What the remote analysis call gives an invocation
ConcurrentAnalysisOutcomes ==
  { Throw(TransportFailure),
    Ok([object |-> [vulnerabilities |-> JsArray(<<>>),
                    summary |-> [totalIssues |-> 0, criticalFindings |-> <<>>,
                                 overallRisk |-> "low"]]]),
    Ok([object |-> [vulnerabilities |-> JsArray(<<HighAtLine7, LowAtLine0>>),
                    summary |-> [totalIssues |-> 3, criticalFindings |-> <<>>,
                                 overallRisk |-> "low"]]]) }

\* What the remote insight call gives an invocation
ConcurrentInsightOutcomes ==
  { Throw(TransportFailure),
    Ok([object |-> [analysis |-> NARRATIVE, riskAssessment |-> RiskAssessment]]),
    Ok([object |-> [analysis |-> "Two findings need attention.",
                    riskAssessment |-> RiskAssessment]]) }

NewScan(lst) ==
  [pc |-> "start", listing |-> lst, config |-> NULL, context |-> NULL,
   analysisResponse |-> NULL, vulnerabilities |-> NULL, insightResponse |-> NULL,
   insights |-> NULL, report |-> NULL, error |-> NULL]

InitConcurrent ==
  /\ scans \in [Invocations -> {NewScan(lst) : lst \in ConcurrentListings}]
  /\ configFile \in ConfigFiles
  /\ config = NULL
  /\ pc = "idle" /\ dirArg = ROOT_DIR
  /\ options = [output |-> FALSE, pdf |-> FALSE]
  /\ listing = NULL
  /\ context = NULL /\ analysisRequests = 0 /\ analysisResponse = NULL
  /\ vulnerabilities = NULL /\ insightPrompt = NULL /\ insightRequests = 0
  /\ insightResponse = NULL /\ insights = NULL /\ report = NULL
  /\ rendered = FALSE /\ outputFile = NULL /\ error = NULL
  /\ stderr = <<>> /\ exitCode = -1 /\ trace = <<>>
  /\ lastCall = NULL /\ pdf = NULL /\ parsed = NULL
  /\ IdleDisc
  /\ IdleCtx

SharedUnchanged ==
  UNCHANGED <<pc, dirArg, options, context, analysisRequests, analysisResponse,
              vulnerabilities, insightPrompt, insightRequests, insightResponse,
              insights, report, rendered, outputFile, error, stderr, exitCode,
              trace, listing, lastCall, pdf, parsed, discVars, ctxVars>>

ScanFailed(i, err) ==
  scans' = [scans EXCEPT ![i].pc = "failed", ![i].error = err]

\* configManager.getConfig(): with a cached configuration it returns it, and
\* without one it calls loadConfig, which awaits fs.readFile
ScanGetConfig(i) ==
  /\ scans[i].pc = "start"
  /\ scans' = [scans EXCEPT ![i].pc = IF config = NULL THEN "readingConfig"
                                      ELSE "configLoaded"]
  /\ UNCHANGED <<config, configFile>>
  /\ SharedUnchanged

\* loadConfig after fs.readFile, `return this.config` of getConfig and the check
\* that a configuration exists
ScanConfigLoaded(i) ==
  /\ scans[i].pc \in {"readingConfig", "configLoaded"}
  /\ LET l == IF scans[i].pc = "readingConfig" THEN loadConfig(config, configFile)
              ELSE [res |-> Ok(config), cache |-> config]
     IN /\ config' = l.cache
        /\ IF ~l.res.ok THEN ScanFailed(i, l.res.error)
           ELSE IF l.cache = NULL
             THEN ScanFailed(i, ConfigurationError(Msg(
                    "No configuration found. Please run \"vibe-check config setup\" first.")))
           ELSE scans' = [scans EXCEPT ![i].pc = "configured", ![i].config = l.cache]
  /\ UNCHANGED configFile
  /\ SharedUnchanged

\* new CodeAnalyzer(config), analyzeCodebase(dir) up to its remote request
ScanStartAnalysis(i) ==
  /\ scans[i].pc = "configured"
  /\ LET a == analyzeCodebaseUntilRequest(dirArg, scans[i].config, scans[i].listing)
     IN IF ~a.res.ok THEN ScanFailed(i, a.res.error)
        ELSE scans' = [scans EXCEPT ![i].pc = "awaitAnalysis",
                                    ![i].context = a.res.value]
  /\ UNCHANGED <<config, configFile>>
  /\ SharedUnchanged

\* the analysis response of invocation i, kept in a place all invocations share
ScanAnalysisResponseShared(i, outcome) ==
  /\ scans[i].pc = "awaitAnalysis"
  /\ LET r == analyzeCodebaseFromResponse(outcome) IN
     IF ~r.ok
       THEN scans' = [scans EXCEPT ![i].pc = "failed", ![i].error = r.error,
                                   ![i].analysisResponse = outcome]
       ELSE scans' = [j \in Invocations |->
                        IF j = i
                          THEN [scans[j] EXCEPT !.pc = "awaitInsights",
                                                !.analysisResponse = outcome,
                                                !.vulnerabilities = r.value]
                          ELSE [scans[j] EXCEPT !.vulnerabilities = r.value]]
  /\ UNCHANGED <<config, configFile>>
  /\ SharedUnchanged

\* the analysis response arrives; generateInsights runs up to its request
ScanAnalysisResponse(i, outcome) ==
  /\ scans[i].pc = "awaitAnalysis"
  /\ LET r == analyzeCodebaseFromResponse(outcome) IN
     IF ~r.ok
       THEN scans' = [scans EXCEPT ![i].pc = "failed", ![i].error = r.error,
                                   ![i].analysisResponse = outcome]
       ELSE LET g == generateInsightsUntilRequest(r.value, scans[i].config) IN
            IF ~g.ok
              THEN scans' = [scans EXCEPT ![i].pc = "failed", ![i].error = g.error,
                                          ![i].analysisResponse = outcome]
              ELSE scans' = [scans EXCEPT ![i].pc = "awaitInsights",
                                          ![i].analysisResponse = outcome,
                                          ![i].vulnerabilities = r.value]
  /\ UNCHANGED <<config, configFile>>
  /\ SharedUnchanged

\* the insight response arrives; the report is assembled and returned
ScanInsightResponse(i, outcome) ==
  /\ scans[i].pc = "awaitInsights"
  /\ LET r == generateInsightsFromResponse(outcome) IN
     IF ~r.ok
       THEN scans' = [scans EXCEPT ![i].pc = "failed", ![i].error = r.error,
                                   ![i].insightResponse = outcome]
       ELSE scans' = [scans EXCEPT
                        ![i].pc = "returned",
                        ![i].insightResponse = outcome,
                        ![i].insights = r.value,
                        ![i].report = generateReport(scans[i].vulnerabilities, r.value)]
  /\ UNCHANGED <<config, configFile>>
  /\ SharedUnchanged

NextConcurrent ==
  \E i \in Invocations :
    \/ ScanGetConfig(i)
    \/ ScanConfigLoaded(i)
    \/ ScanStartAnalysis(i)
    \/ \E outcome \in ConcurrentAnalysisOutcomes : ScanAnalysisResponse(i, outcome)
    \/ \E outcome \in ConcurrentInsightOutcomes : ScanInsightResponse(i, outcome)

SpecConcurrent == InitConcurrent /\ [][NextConcurrent]_vars


(***************************************************************************)
(* C21                                                                     *)
(***************************************************************************)
\* What invocation s holds, computed from its own files and its own responses
OwnContext(s) ==
  analyzeCodebaseUntilRequest(dirArg, configFile, s.listing).res

OwnVulnerabilities(s) ==
  analyzeCodebaseFromResponse(s.analysisResponse)

OwnReport(s) ==
  generateReport(OwnVulnerabilities(s).value,
                 generateInsightsFromResponse(s.insightResponse).value)

ScanOwnsItsState(s) ==
  /\ s.context # NULL => /\ s.config = configFile
                         /\ OwnContext(s).ok
                         /\ s.context = OwnContext(s).value
  /\ s.vulnerabilities # NULL => /\ s.analysisResponse # NULL
                                 /\ OwnVulnerabilities(s).ok
                                 /\ s.vulnerabilities = OwnVulnerabilities(s).value
  /\ s.report # NULL => /\ s.insightResponse # NULL
                        /\ s.report = OwnReport(s)
  /\ s.pc = "returned" => s.report # NULL

OneScanSteps ==
  /\ configFile' = configFile
  /\ \E i \in Invocations : \A j \in Invocations \ {i} : scans'[j] = scans[j]

\* C21: in every interleaving of scan invocations each invocation's context,
\* vulnerability list and report are the ones its own files and its own model
\* responses give, a step of one invocation leaves the other's state as it was,
\* and the config file is never modified.
C21_ScansIsolated ==
  /\ [](\A i \in DOMAIN scans : ScanOwnsItsState(scans[i]))
  /\ [][OneScanSteps]_vars

\* Two invocations over different directories both returned, each with its
\* own report: two findings for the first and none for the second.
C21_Witness ==
  /\ DOMAIN scans = Invocations
  /\ scans[1].pc = "returned" /\ scans[2].pc = "returned"
  /\ scans[1].report # scans[2].report
  /\ scans[1].listing # scans[2].listing
  /\ scans[1].report.summary.total = 2
  /\ scans[2].report.summary.total = 0


(***************************************************************************)
(* The --output document: a report is serialized as the scan command       *)
(* writes it, and the document is parsed back.                             *)
(***************************************************************************)
\* Vulnerabilities with all the fields of the interface
FullVulnerabilities ==
  { [severity |-> "high", file |-> "src/app.ts", line |-> 12,
     description |-> QUOTED_DESCRIPTION,
     recommendation |-> "Use a parameterised query."],
    [severity |-> "medium", file |-> WINDOWS_PATH, line |-> 0,
     description |-> "Hard-coded secret",
     recommendation |-> TWO_LINE_RECOMMENDATION],
    [severity |-> "low", file |-> "", line |-> -1,
     description |-> "", recommendation |-> ""],
    [severity |-> "high", file |-> "a b.py", line |-> 107,
     description |-> "Shell injection", recommendation |-> "Quote arguments."] }

FullVulnerabilityLists == UNION {[1..n -> FullVulnerabilities] : n \in 0..MaxVulns}

InsightLists == {<<NARRATIVE>>, <<QUOTED_NARRATIVE>>, <<FALLBACK_INSIGHT>>}

InitJson ==
  /\ pc = "report"
  /\ \E items \in FullVulnerabilityLists, ins \in InsightLists :
       /\ vulnerabilities = JsArray(items)
       /\ insights = ins
       /\ report = generateReport(JsArray(items), ins)
  /\ outputFile = NULL /\ parsed = NULL
  /\ configFile = NULL /\ config = NULL /\ dirArg = ROOT_DIR
  /\ options = [output |-> TRUE, pdf |-> FALSE]
  /\ listing = NULL /\ context = NULL
  /\ analysisRequests = 0 /\ analysisResponse = NULL
  /\ insightPrompt = NULL /\ insightRequests = 0 /\ insightResponse = NULL
  /\ rendered = FALSE /\ error = NULL
  /\ stderr = <<>> /\ exitCode = -1 /\ trace = <<>>
  /\ scans = <<>> /\ lastCall = NULL /\ pdf = NULL
  /\ IdleDisc
  /\ IdleCtx

JsonUnchanged ==
  UNCHANGED <<configFile, config, dirArg, options, context, analysisRequests,
              analysisResponse, vulnerabilities, insightPrompt, insightRequests,
              insightResponse, insights, report, rendered, error, stderr,
              exitCode, trace, listing, scans, lastCall, pdf, discVars, ctxVars>>

\* fs.writeFile(options.output, JSON.stringify(report, null, 2))
SerializeReport ==
  /\ pc = "report"
  /\ outputFile' = writtenDocument(report)
  /\ pc' = "written"
  /\ UNCHANGED parsed
  /\ JsonUnchanged

\* a consumer reads the document with JSON.parse
ParseDocument ==
  /\ pc = "written"
  /\ parsed' = JSON_parse(outputFile)
  /\ pc' = "parsed"
  /\ UNCHANGED outputFile
  /\ JsonUnchanged

NextJson == SerializeReport \/ ParseDocument

SpecJson == InitJson /\ [][NextJson]_vars

(***************************************************************************)
(* C22                                                                     *)
(***************************************************************************)
\* the member of an object value with the given key (the key is present)
member(obj, key) ==
  LET k == CHOOSE k \in 1..Len(obj.kids) : obj.kids[k].s = Text(key)
  IN obj.kids[k].kids[1]

\* C22: parsing the JSON document written for --output gives back the report:
\* the same vulnerabilities with severity, file, line, description and
\* recommendation, the same summary counts and the same insights.
C22_JsonRoundTrip ==
  pc = "parsed" =>
    /\ parsed.ok
    /\ parsed.value = reportValue(report)
    /\ LET vs == member(parsed.value, "vulnerabilities").kids
           items == report.vulnerabilities.items
       IN /\ Len(vs) = Len(items)
          /\ \A k \in 1..Len(vs) :
               /\ member(vs[k], "severity").s = Text(items[k].severity)
               /\ member(vs[k], "file").s = Text(items[k].file)
               /\ member(vs[k], "line").n = items[k].line
               /\ member(vs[k], "description").s = Text(items[k].description)
               /\ member(vs[k], "recommendation").s = Text(items[k].recommendation)
    /\ LET sm == member(parsed.value, "summary")
       IN /\ member(sm, "total").n = report.summary.total
          /\ member(sm, "high").n = report.summary.high
          /\ member(sm, "medium").n = report.summary.medium
          /\ member(sm, "low").n = report.summary.low
    /\ LET ins == member(parsed.value, "insights").kids
       IN /\ Len(ins) = Len(report.insights)
          /\ \A k \in 1..Len(ins) : ins[k].s = Text(report.insights[k])

\* A report whose strings hold a quote, a backslash and a line break, with a
\* negative and a multi-digit line number, was written and parsed back.
C22_Witness ==
  /\ pc = "parsed"
  /\ parsed.ok
  /\ Len(report.vulnerabilities.items) = 3
  /\ \E k \in 1..3 : report.vulnerabilities.items[k].file = WINDOWS_PATH
  /\ \E k \in 1..3 : report.vulnerabilities.items[k].description = QUOTED_DESCRIPTION
  /\ \E k \in 1..3 : report.vulnerabilities.items[k].line = -1
  /\ report.insights = <<QUOTED_NARRATIVE>>
  /\ "\\" \in Range(outputFile)


(***************************************************************************)
(* C23                                                                     *)
(***************************************************************************)
\* what building the condensed context gave the call of analyzeCodebase
BuildOutcome == getCondensedContext(dirArg, listing, ANALYSIS_MAX_FILES)

\* analyzeCodebase started the context build and the build threw
BuildThrew ==
  /\ Started("contextBuild") /\ ~Started("analysisRequest")
  /\ ~BuildOutcome.ok

\* the remote analysis request threw
RequestThrew == analysisResponse # NULL /\ ~analysisResponse.ok

\* the error surfaced is an AIAnalysisError made from the thrown value as
\* tryAsync makes it: an Error becomes the cause, any other value is appended
\* to the message and there is no cause
WrapsThrown(err, thrown, errorMessage) ==
  /\ err.name = "AIAnalysisError"
  /\ IF isError(thrown)
       THEN err.cause = thrown /\ err.message = errorMessage
       ELSE /\ err.cause = NO_CAUSE
            /\ err.message = errorMessage \o <<": ", thrown.thrown>>

\* C23 as amended: a failure of the context build or of the remote analysis
\* request surfaces from analyzeCodebase as an AIAnalysisError; its cause is
\* the original failure when that is an Error, and when another value was
\* thrown there is no cause and the value is appended to the message.
C23_FailureWrapped ==
  /\ BuildThrew =>
       /\ pc = "thrown"
       /\ WrapsThrown(error, BuildOutcome.error,
                      Msg("Failed to build codebase context for AI analysis"))
  /\ RequestThrew =>
       /\ pc = "thrown"
       /\ WrapsThrown(error, analysisResponse.error, Msg("AI analysis request failed"))

\* the remote request threw a value that is not an Error
C23_Witness ==
  /\ RequestThrew /\ pc = "thrown"
  /\ ~isError(analysisResponse.error)
  /\ error.name = "AIAnalysisError"
  /\ error.cause = NO_CAUSE

\* C23 as stated: the cause is the original failure whatever value was thrown.
C23_CauseAlwaysOriginal ==
  /\ BuildThrew =>
       /\ pc = "thrown" /\ error.name = "AIAnalysisError"
       /\ error.cause = BuildOutcome.error
  /\ RequestThrew =>
       /\ pc = "thrown" /\ error.name = "AIAnalysisError"
       /\ error.cause = analysisResponse.error


(***************************************************************************)
(* C24                                                                     *)
(***************************************************************************)
\* the files of the directory that buildContext accepts
AcceptedIn(lst) == SelectSeq(lst.files, IsAccepted)

\* C24: when analyzeCodebase has issued its request, the context put in the
\* prompt holds between 1 and 15 files; on a directory none of whose files is
\* accepted, analyzeCodebase throws AIAnalysisError and issues no request.
C24_PromptFileCount ==
  /\ Started("analysisRequest") =>
       /\ context # NULL
       /\ Len(context.files) >= 1
       /\ Len(context.files) <= ANALYSIS_MAX_FILES
       /\ Len(context.files) = Min(ANALYSIS_MAX_FILES, Len(AcceptedIn(listing)))
  /\ (Started("contextBuild") /\ listing.ok /\ Len(AcceptedIn(listing)) = 0) =>
       /\ pc = "thrown"
       /\ error.name = "AIAnalysisError"
       /\ analysisRequests = 0
       /\ ~Started("analysisRequest")

\* the request was issued for a directory of 20 accepted files with 15 of them
C24_Witness ==
  /\ Started("analysisRequest")
  /\ Len(AcceptedIn(listing)) = 20
  /\ Len(context.files) = ANALYSIS_MAX_FILES


(***************************************************************************)
(* C25                                                                     *)
(***************************************************************************)
\* C25: the insight prompt lists the first min(10, n) vulnerabilities of the
\* input in input order, and its severity counts are those of all n.
C25_InsightPromptSample ==
  insightPrompt # NULL =>
    LET items == vulnerabilities.items
        n == Len(items)
    IN /\ Len(insightPrompt.vulnSummary) = Min(10, n)
       /\ \A i \in 1..Min(10, n) :
            insightPrompt.vulnSummary[i] =
              <<toUpperCase(items[i].severity), items[i].line>>
       /\ insightPrompt.vulnCount = n
       /\ insightPrompt.highCount = CountOf(items, "high")
       /\ insightPrompt.mediumCount = CountOf(items, "medium")
       /\ insightPrompt.lowCount = CountOf(items, "low")

\* a prompt for twelve findings: ten listed, none of them high, two high counted
C25_Witness ==
  /\ insightPrompt # NULL
  /\ Len(vulnerabilities.items) = 12
  /\ Len(insightPrompt.vulnSummary) = 10
  /\ insightPrompt.highCount = 2
  /\ \A i \in 1..10 : insightPrompt.vulnSummary[i][1] # "HIGH"


(***************************************************************************)
(* C26                                                                     *)
(***************************************************************************)
\* the summary names a file of the context whose size is maximal and gives the
\* rounded mean of the sizes
LargestAndAverage(ctx) ==
  /\ \E i \in 1..Len(ctx.files) :
       /\ ctx.summary.largestFile = ctx.files[i].path
       /\ \A j \in 1..Len(ctx.files) : ctx.files[j].size <= ctx.files[i].size
  /\ ctx.summary.averageFileSize =
       roundDiv(SumSeq([i \in 1..Len(ctx.files) |-> ctx.files[i].size]),
                Len(ctx.files))

\* C26: in every built context with at least one file, summary.largestFile is
\* the path of one of its files of maximal size and summary.averageFileSize is
\* the rounded mean of the file sizes.
C26_LargestFileAndAverage ==
  (built # NULL /\ built.ok /\ Len(built.value.files) > 0) =>
    LargestAndAverage(built.value)


(***************************************************************************)
(* The analysis request: the schema handed to generateObject and the       *)
(* instruction block of the prompt.  A schema is a record from field names *)
(* to the kind of value of the field, an enumeration being the set of its  *)
(* values; the instruction block is a record from the names it lists to    *)
(* what it says of them.                                                   *)
(***************************************************************************)
VulnerabilitySchema ==
  [severity |-> {"high", "medium", "low"},
   file |-> "string",
   line |-> "number",
   description |-> "string",
   recommendation |-> "string"]

SecurityAnalysisSchema ==
  [vulnerabilities |-> VulnerabilitySchema,
   summary |-> [totalIssues |-> "number",
                criticalFindings |-> "array of string",
                overallRisk |-> {"low", "medium", "high"}]]

\* lines 255-287 with the fix of an issue asked for under another name
buildStructuredAnalysisPromptRenamed(ctx) ==
  [context |-> ctx,
   instructions |->
     [vulnerabilities |->
        [severity |-> {"high", "medium", "low"},
         file |-> "relative path to the file",
         line |-> "line number where issue occurs",
         description |-> "clear explanation of the vulnerability",
         fix |-> "specific fix for the issue"],
      summary |->
        [totalIssues |-> "total number of vulnerabilities found",
         criticalFindings |-> "array of most critical security findings",
         overallRisk |-> {"low", "medium", "high"}]]]

buildStructuredAnalysisPrompt(ctx) ==
  [context |-> ctx,
   instructions |->
     [vulnerabilities |->
        [severity |-> {"high", "medium", "low"},
         file |-> "relative path to the file",
         line |-> "line number where issue occurs",
         description |-> "clear explanation of the vulnerability",
         recommendation |-> "specific fix for the issue"],
      summary |->
        [totalIssues |-> "total number of vulnerabilities found",
         criticalFindings |-> "array of most critical security findings",
         overallRisk |-> {"low", "medium", "high"}]]]

(***************************************************************************)
(* C27                                                                     *)
(***************************************************************************)
\* C27: in every analysis request, the fields the instruction block of the
\* prompt lists are the fields of the response schema: the same two groups,
\* the same vulnerability fields with the same severity values, and the same
\* summary fields with the same risk levels.
C27_PromptMatchesSchema ==
  Started("analysisRequest") =>
    LET said == buildStructuredAnalysisPrompt(context).instructions
        schema == SecurityAnalysisSchema
    IN /\ DOMAIN said = DOMAIN schema
       /\ DOMAIN said = {"vulnerabilities", "summary"}
       /\ DOMAIN said.vulnerabilities = DOMAIN schema.vulnerabilities
       /\ DOMAIN said.vulnerabilities =
            {"severity", "file", "line", "description", "recommendation"}
       /\ said.vulnerabilities.severity = schema.vulnerabilities.severity
       /\ DOMAIN said.summary = DOMAIN schema.summary
       /\ DOMAIN said.summary = {"totalIssues", "criticalFindings", "overallRisk"}
       /\ said.summary.overallRisk = schema.summary.overallRisk

\* an analysis request was issued with a prompt built from a context of two files
C27_Witness ==
  /\ Started("analysisRequest")
  /\ pc = "awaitAnalysis"
  /\ Len(buildStructuredAnalysisPrompt(context).context.files) = 2


(***************************************************************************)
(* config/manager: the ConfigManager singleton called on its own.  The     *)
(* config file is held by the configuration its JSON text parses to (NULL  *)
(* when there is no file); `config` is the cache this.config.  Each        *)
(* operation gives [res, cache, file]: what it returns or throws and the   *)
(* cache and the file afterwards.                                          *)
(***************************************************************************)
DEFAULT_CONFIG == [model |-> "deepseek/deepseek-r1"]

\* { ...current, ...updates }
spread(current, updates) ==
  [f \in DOMAIN current \cup DOMAIN updates |->
     IF f \in DOMAIN updates THEN updates[f] ELSE current[f]]

CONFIG_FIELDS == <<"apiKey", "model">>

\* a configuration object as a JSON value
configValue(c) ==
  LET present(f) == f \in DOMAIN c
      fields == SelectSeq(CONFIG_FIELDS, present)
  IN JObject([k \in 1..Len(fields) |->
       JMember(Text(fields[k]), JString(Text(c[fields[k]])))])

\* the string of a text
Untext(t) ==
  IF \E s \in DOMAIN Spelling : Spelling[s] = t
    THEN CHOOSE s \in DOMAIN Spelling : Spelling[s] = t
    ELSE t[1]

\* the configuration object of a JSON value
configOf(v) ==
  [f \in {Untext(v.kids[k].s) : k \in 1..Len(v.kids)} |->
     Untext(member(v, f).s)]

\* what the file holds after fs.writeFile(CONFIG_FILE, JSON.stringify(c, null, 2))
persisted(c) == configOf(JSON_parse(JSON_stringify(configValue(c))).value)

InvalidConfiguration == PlainError(Msg("Invalid configuration: ${validation.errors}"))

\* saveConfig that writes the file before it validates
saveConfigWriteFirst(cache, file, c, writable) ==
  IF ~writable
    THEN [res |-> Throw(PlainError(Msg("EACCES: permission denied, open"))),
          cache |-> cache, file |-> file]
  ELSE IF c = NULL \/ ~validateConfig(c).isValid
    THEN [res |-> Throw(InvalidConfiguration), cache |-> cache,
          file |-> IF c = NULL THEN file ELSE c]
  ELSE [res |-> Ok(NULL), cache |-> c, file |-> persisted(c)]

\* saveConfig(c); `writable` is whether the file can be opened for writing
saveConfig(cache, file, c, writable) ==
  IF ~validateConfig(c).isValid
    THEN [res |-> Throw(InvalidConfiguration), cache |-> cache, file |-> file]
  ELSE IF ~writable
    THEN [res |-> Throw(PlainError(Msg("EACCES: permission denied, open"))),
          cache |-> cache, file |-> file]
  ELSE [res |-> Ok(NULL), cache |-> c, file |-> persisted(c)]

\* the configuration updateConfig validates: the current one, or the defaults,
\* with the updates over it
updatedConfig(current, updates) ==
  spread(IF current # NULL THEN current ELSE DEFAULT_CONFIG, updates)

updateConfig(cache, file, updates, writable) ==
  LET g == getConfig(cache, file) IN
  IF ~g.res.ok THEN [res |-> g.res, cache |-> g.cache, file |-> file]
  ELSE LET updated == updatedConfig(g.res.value, updates) IN
       IF ~validateConfig(updated).isValid
         THEN [res |-> Throw(InvalidConfiguration), cache |-> g.cache, file |-> file]
       ELSE LET s == saveConfig(g.cache, file, updated, writable) IN
            IF s.res.ok THEN [res |-> Ok(updated), cache |-> s.cache, file |-> s.file]
            ELSE s

\* deleteConfig that leaves the cache as it is
deleteConfigKeepCache(cache, file, removable) ==
  IF file = NULL THEN [res |-> Ok(NULL), cache |-> cache, file |-> file]
  ELSE IF ~removable
    THEN [res |-> Throw(PlainError(Msg("EACCES: permission denied, unlink"))),
          cache |-> cache, file |-> file]
  ELSE [res |-> Ok(NULL), cache |-> cache, file |-> NULL]

\* deleteConfig; without a file fs.unlink fails with ENOENT, which is swallowed,
\* and `removable` is whether an existing file can be unlinked
deleteConfig(cache, file, removable) ==
  IF file = NULL THEN [res |-> Ok(NULL), cache |-> cache, file |-> file]
  ELSE IF ~removable
    THEN [res |-> Throw(PlainError(Msg("EACCES: permission denied, unlink"))),
          cache |-> cache, file |-> file]
  ELSE [res |-> Ok(NULL), cache |-> NULL, file |-> NULL]

\* What a caller passes to saveConfig
SaveArguments ==
  {NULL, [model |-> "deepseek-r1"], [apiKey |-> "sk-or-key"]}
  \cup [apiKey : {"", NUMBER_42, "sk-or-key"}, model : {"", "deepseek-r1"}]

\* What a caller passes to updateConfig
UpdateArguments ==
  { [apiKey |-> "sk-or-other"], [apiKey |-> ""], [apiKey |-> NUMBER_42],
    [model |-> "qwen/qwq-32b"], [model |-> ""],
    [apiKey |-> "sk-or-other", model |-> "qwen/qwq-32b"] }

InitConfig ==
  /\ pc = "caller"
  /\ configFile \in ConfigFiles
  /\ config = NULL
  /\ lastCall = NULL
  /\ dirArg = ROOT_DIR
  /\ options = [output |-> FALSE, pdf |-> FALSE]
  /\ listing = NULL /\ context = NULL
  /\ analysisRequests = 0 /\ analysisResponse = NULL
  /\ vulnerabilities = NULL /\ insightPrompt = NULL /\ insightRequests = 0
  /\ insightResponse = NULL /\ insights = NULL /\ report = NULL
  /\ rendered = FALSE /\ outputFile = NULL /\ error = NULL
  /\ stderr = <<>> /\ exitCode = -1 /\ trace = <<>>
  /\ scans = <<>> /\ pdf = NULL /\ parsed = NULL
  /\ IdleDisc
  /\ IdleCtx

\* one call of the ConfigManager: its outcome becomes the cache and the file,
\* and the call is recorded with the cache and the file it started from
Called(op, arg, outcome) ==
  /\ config' = outcome.cache
  /\ configFile' = outcome.file
  /\ lastCall' = [op |-> op, arg |-> arg, res |-> outcome.res,
                  cacheBefore |-> config, fileBefore |-> configFile]
  /\ UNCHANGED <<pc, dirArg, options, context, analysisRequests, analysisResponse,
                 vulnerabilities, insightPrompt, insightRequests, insightResponse,
                 insights, report, rendered, outputFile, error, stderr, exitCode,
                 trace, listing, scans, pdf, parsed, discVars, ctxVars>>

CallLoadConfig ==
  /\ pc = "caller"
  /\ LET l == loadConfig(config, configFile)
     IN Called("loadConfig", NULL,
               [res |-> l.res, cache |-> l.cache, file |-> configFile])

CallGetConfig ==
  /\ pc = "caller"
  /\ LET g == getConfig(config, configFile)
     IN Called("getConfig", NULL,
               [res |-> g.res, cache |-> g.cache, file |-> configFile])

CallSaveConfig(c, writable) ==
  /\ pc = "caller"
  /\ Called("saveConfig", c, saveConfig(config, configFile, c, writable))

CallUpdateConfig(updates, writable) ==
  /\ pc = "caller"
  /\ Called("updateConfig", updates,
            updateConfig(config, configFile, updates, writable))

CallDeleteConfig(removable) ==
  /\ pc = "caller"
  /\ Called("deleteConfig", NULL, deleteConfig(config, configFile, removable))

NextConfig ==
  \/ CallLoadConfig
  \/ CallGetConfig
  \/ \E c \in SaveArguments, writable \in BOOLEAN : CallSaveConfig(c, writable)
  \/ \E updates \in UpdateArguments, writable \in BOOLEAN :
       CallUpdateConfig(updates, writable)
  \/ \E removable \in BOOLEAN : CallDeleteConfig(removable)

SpecConfig == InitConfig /\ [][NextConfig]_vars


(***************************************************************************)
(* C28                                                                     *)
(***************************************************************************)
LastWas(op) == lastCall # NULL /\ lastCall.op = op

\* what the next getConfig returns
NextGetConfig == getConfig(config, configFile).res

\* C28: after any sequence of loadConfig, getConfig, saveConfig, updateConfig
\* and deleteConfig calls the cached configuration is null or equal to the
\* content of the config file; after deleteConfig returned the next getConfig
\* returns null, and after saveConfig(c) returned the next getConfig returns c.
C28_CacheCoherent ==
  /\ config = NULL \/ config = configFile
  /\ (LastWas("deleteConfig") /\ lastCall.res.ok) => NextGetConfig = Ok(NULL)
  /\ (LastWas("saveConfig") /\ lastCall.res.ok) => NextGetConfig = Ok(lastCall.arg)

\* deleteConfig removed the file while the configuration was cached
C28_Witness ==
  /\ LastWas("deleteConfig") /\ lastCall.res.ok
  /\ lastCall.cacheBefore # NULL
  /\ lastCall.fileBefore # NULL
  /\ config = NULL /\ configFile = NULL

(***************************************************************************)
(* C29                                                                     *)
(***************************************************************************)
\* the last call was a saveConfig or an updateConfig whose configuration failed
\* validateConfig
ValidationFailed ==
  \/ LastWas("saveConfig") /\ ~validateConfig(lastCall.arg).isValid
  \/ /\ LastWas("updateConfig")
     /\ LET g == getConfig(lastCall.cacheBefore, lastCall.fileBefore)
        IN /\ g.res.ok
           /\ ~validateConfig(updatedConfig(g.res.value, lastCall.arg)).isValid

\* only valid configurations are written, and what a scan gets is valid
OnlyValidPersisted ==
  /\ (lastCall # NULL /\ configFile # lastCall.fileBefore /\ configFile # NULL) =>
       validateConfig(configFile).isValid
  /\ (NextGetConfig.ok /\ NextGetConfig.value # NULL) =>
       validateConfig(NextGetConfig.value).isValid

\* C29 as amended: on a validation failure saveConfig and updateConfig throw
\* and leave the config file unchanged; the cache is unchanged too, except
\* that an updateConfig that found it empty has filled it from the file.
\* Only valid configurations are written, and every configuration getConfig
\* gives a scan is valid.
C29_InvalidNeverPersisted ==
  /\ ValidationFailed =>
       /\ ~lastCall.res.ok
       /\ lastCall.res.error = InvalidConfiguration
       /\ configFile = lastCall.fileBefore
       /\ \/ config = lastCall.cacheBefore
          \/ /\ LastWas("updateConfig")
             /\ lastCall.cacheBefore = NULL
             /\ config = lastCall.fileBefore
  /\ OnlyValidPersisted

\* updateConfig refused an empty apiKey after loading the file into the cache
C29_Witness ==
  /\ LastWas("updateConfig") /\ ValidationFailed
  /\ lastCall.arg = [apiKey |-> ""]
  /\ lastCall.cacheBefore = NULL
  /\ config # NULL /\ config = configFile
  /\ configFile = lastCall.fileBefore

\* C29 as stated: on a validation failure both the config file and the cached
\* configuration are unchanged.
C29_FileAndCacheUnchanged ==
  /\ ValidationFailed =>
       /\ ~lastCall.res.ok
       /\ configFile = lastCall.fileBefore
       /\ config = lastCall.cacheBefore
  /\ OnlyValidPersisted


(***************************************************************************)
(* core/pdf-generator: one call of generatePDF or generatePDFWithOptions,  *)
(* one step per await.  `pdf` holds the arguments of the call, where it    *)
(* is, what became of the browser, the outcome of the try block (pending)  *)
(* and what the call returned or threw (result).                           *)
(***************************************************************************)
PdfMethods == {"generatePDF", "generatePDFWithOptions"}

\* what an awaited browser or system operation gives
AwaitOutcomes ==
  {Ok(NULL), Throw(PlainError(Msg("Protocol error: target closed"))),
   Throw(NonErrorThrown("timeout"))}

NewPdfCall(method, hasReport, outputPath, autoOpen, markdown) ==
  [method |-> method, hasReport |-> hasReport, outputPath |-> outputPath,
   autoOpen |-> autoOpen, markdown |-> markdown,
   pc |-> "start", browser |-> "none", launched |-> FALSE, closeCalls |-> 0,
   written |-> FALSE, openFailed |-> FALSE, warnings |-> <<>>,
   pending |-> NULL, result |-> NULL]

InitPdf ==
  /\ \E method \in PdfMethods, hasReport \in BOOLEAN, outputPath \in {"", "report"},
        autoOpen \in BOOLEAN, markdown \in BOOLEAN :
       /\ (markdown => method = "generatePDF")
       /\ pdf = NewPdfCall(method, hasReport, outputPath, autoOpen, markdown)
  /\ scans = <<>> /\ lastCall = NULL /\ parsed = NULL
  /\ listing = NULL
  /\ IdleScan
  /\ IdleDisc
  /\ IdleCtx

PdfUnchanged ==
  UNCHANGED <<scans, lastCall, parsed, listing, scanVars, discVars, ctxVars>>

\* the try block threw or ended while no browser was launched: the finally
\* block has nothing to close
PdfEndsWithoutBrowser(res) ==
  pdf' = [pdf EXCEPT !.pc = "done", !.pending = res, !.result = res]

\* the try block threw or ended with the browser launched
PdfToFinally(res) ==
  pdf' = [pdf EXCEPT !.pc = "finally", !.pending = res]

\* the checks before the try block
PdfValidate ==
  /\ pdf.pc = "start"
  /\ IF ~pdf.hasReport
       THEN PdfEndsWithoutBrowser(Throw(PDFGenerationError(
              Msg("Vulnerability report is required"))))
     ELSE IF pdf.outputPath = ""
       THEN PdfEndsWithoutBrowser(Throw(PDFGenerationError(
              Msg("Output path is required and must be a string"))))
     ELSE pdf' = [pdf EXCEPT !.pc = "content",
                             !.outputPath = pdf.outputPath \o ".pdf"]
  /\ PdfUnchanged

\* the HTML content; with options.markdown, generatePDF awaits import('markdown-it')
PdfContent(imported) ==
  /\ pdf.pc = "content"
  /\ ~pdf.markdown => imported = Ok(NULL)
  /\ IF imported.ok THEN pdf' = [pdf EXCEPT !.pc = "launch"]
     ELSE PdfEndsWithoutBrowser(imported)
  /\ PdfUnchanged

\* browser = await tryAsync(() => puppeteer.launch(...), ..., PDFGenerationError)
PdfLaunch(outcome) ==
  /\ pdf.pc = "launch"
  /\ LET r == tryAsync(outcome, Msg("Failed to launch browser for PDF generation"),
                       "PDFGenerationError")
     IN IF r.ok THEN pdf' = [pdf EXCEPT !.pc = "newPage", !.browser = "open",
                                        !.launched = TRUE]
        ELSE PdfEndsWithoutBrowser(r)
  /\ PdfUnchanged

PdfNewPage(outcome) ==
  /\ pdf.pc = "newPage"
  /\ LET r == tryAsync(outcome, Msg("Failed to create browser page"),
                       "PDFGenerationError")
     IN IF r.ok THEN pdf' = [pdf EXCEPT !.pc = "setContent"] ELSE PdfToFinally(r)
  /\ PdfUnchanged

PdfSetContent(outcome) ==
  /\ pdf.pc = "setContent"
  /\ LET r == tryAsync(outcome, Msg("Failed to set HTML content in browser"),
                       "PDFGenerationError")
     IN IF r.ok THEN pdf' = [pdf EXCEPT !.pc = "print"] ELSE PdfToFinally(r)
  /\ PdfUnchanged

\* page.pdf({path: outputPath, ...}), then the auto-open when it is asked for
PdfPrint(outcome) ==
  /\ pdf.pc = "print"
  /\ LET r == tryAsync(outcome, <<"Failed to generate PDF at path: ", pdf.outputPath>>,
                       "PDFGenerationError")
     IN IF ~r.ok THEN PdfToFinally(r)
        ELSE IF pdf.autoOpen
          THEN pdf' = [pdf EXCEPT !.pc = "open", !.written = TRUE]
        ELSE pdf' = [pdf EXCEPT !.pc = "finally", !.written = TRUE,
                                !.pending = Ok(NULL)]
  /\ PdfUnchanged

\* openPDF: a failure of execAsync is caught and only warned about
PdfOpen(outcome) ==
  /\ pdf.pc = "open"
  /\ pdf' = [pdf EXCEPT
       !.pc = "finally",
       !.pending = Ok(NULL),
       !.openFailed = ~outcome.ok,
       !.warnings = IF outcome.ok THEN @
                    ELSE Append(@, "Warning: Could not auto-open PDF file:")]
  /\ PdfUnchanged

\* a finally block that closes the browser only when the try block succeeded
PdfFinallyOnSuccess(closed) ==
  /\ pdf.pc = "finally"
  /\ IF ~pdf.pending.ok
       THEN pdf' = [pdf EXCEPT !.pc = "done", !.result = pdf.pending]
     ELSE pdf' = [pdf EXCEPT
            !.pc = "done",
            !.closeCalls = @ + 1,
            !.browser = IF closed.ok THEN "closed" ELSE "closeFailed",
            !.warnings = IF closed.ok THEN @
                         ELSE Append(@, "Warning: Failed to close browser properly"),
            !.result = pdf.pending]
  /\ PdfUnchanged

\* finally { if (browser) { try { await browser.close() } catch { warn } } }
PdfFinally(closed) ==
  /\ pdf.pc = "finally"
  /\ pdf' = [pdf EXCEPT
       !.pc = "done",
       !.closeCalls = @ + 1,
       !.browser = IF closed.ok THEN "closed" ELSE "closeFailed",
       !.warnings = IF closed.ok THEN @
                    ELSE Append(@, "Warning: Failed to close browser properly"),
       !.result = pdf.pending]
  /\ PdfUnchanged

NextPdf ==
  \/ PdfValidate
  \/ \E imported \in AwaitOutcomes : PdfContent(imported)
  \/ \E outcome \in AwaitOutcomes : PdfLaunch(outcome)
  \/ \E outcome \in AwaitOutcomes : PdfNewPage(outcome)
  \/ \E outcome \in AwaitOutcomes : PdfSetContent(outcome)
  \/ \E outcome \in AwaitOutcomes : PdfPrint(outcome)
  \/ \E outcome \in AwaitOutcomes : PdfOpen(outcome)
  \/ \E closed \in AwaitOutcomes : PdfFinally(closed)

SpecPdf == InitPdf /\ [][NextPdf]_vars

(***************************************************************************)
(* C30                                                                     *)
(***************************************************************************)
PdfDone == pdf # NULL /\ pdf.pc = "done"

\* C30: when generatePDF or generatePDFWithOptions has returned or thrown
\* with the browser launched, browser.close() was called, on every path;
\* a close that fails is only warned about and the call ends as its try block
\* did; and a failed auto-open leaves the generation successful.
C30_BrowserClosed ==
  PdfDone =>
    /\ pdf.launched => (pdf.closeCalls = 1 /\ pdf.browser \in {"closed", "closeFailed"})
    /\ ~pdf.launched => (pdf.closeCalls = 0 /\ pdf.browser = "none")
    /\ pdf.result = pdf.pending
    /\ pdf.browser = "closeFailed" =>
         "Warning: Failed to close browser properly" \in Range(pdf.warnings)
    /\ pdf.openFailed => (pdf.result.ok /\ pdf.written)
    /\ pdf.result.ok <=> pdf.written

\* the PDF could not be written, the call threw PDFGenerationError, and the
\* browser was closed before it did
C30_Witness ==
  /\ PdfDone
  /\ pdf.launched /\ pdf.browser = "closed"
  /\ ~pdf.result.ok
  /\ pdf.result.error.name = "PDFGenerationError"
  /\ pdf.result.error.message[1] = "Failed to generate PDF at path: "

====
